---- MODULE Spec2Model ----
(***************************************************************************)
(* Model of the health-check monitoring engine, HealthCheckMonitor, of     *)
(* health_check_monitor.py and run.py: the probe (check_url_health), the   *)
(* bounded history (record_status), the per-URL failure state machine      *)
(* (handle_failure / handle_success), the check cycle                      *)
(* (run_single_check_cycle) and the continuous loop                        *)
(* (start_continuous_monitoring).                                          *)
(*                                                                         *)
(* The handlers are modelled statement by statement: pc is the position of *)
(* the main thread, and a KeyboardInterrupt may be delivered between any   *)
(* two statements of the loop.                                             *)
(*                                                                         *)
(* Time is in whole seconds; datetime.now() is the variable now, which     *)
(* only moves forward (by the time a timed-out request or a sleep takes).  *)
(***************************************************************************)
EXTENDS Integers, Sequences, FiniteSets, TLC

(***************************************************************************)
(* Bounds of the model.                                                    *)
(***************************************************************************)
MaxUrls == 2          \* lines of urls.txt
MaxChecks == 4        \* probes of one monitoring session
MaxThreshold == 2     \* largest configured alert_threshold
MaxRecordCalls == 4   \* record_status calls of a history run
MaxProbeCalls == 2    \* check_url_health calls of a probe run

(***************************************************************************)
(* Program constants.                                                      *)
(***************************************************************************)
CHECK_INTERVAL == 300
QUICK_CHECK_INTERVAL == 60
REQUEST_TIMEOUT == 10
CONSECUTIVE_FAILURES_THRESHOLD == 2
HISTORY_LIMIT == 1000
HEALTHY_STATUS_CODES == {200, 201, 202, 204, 301, 302, 304, 307, 308}

URLS == {"A", "B"}

\* The URL lists urls.txt can supply: any lines, repeated ones included.
UrlLists == UNION {[1..n -> URLS] : n \in 0..MaxUrls}

\* alert_threshold is read with getint and not validated: any integer.
Thresholds == (0 - 1)..MaxThreshold

\* What one GET can end in.  A response carries the status code the server
\* sent (http.client accepts 100..999 only) and the seconds it took.
ResponseOutcome(code, elapsed) ==
    [kind |-> "response", status_code |-> code, elapsed |-> elapsed]
ErrorOutcome(kind) ==
    [kind |-> kind, status_code |-> 0, elapsed |-> 0]
ErrorKinds == {"Timeout", "ConnectionError", "RequestException", "Exception"}

\* The outcomes drawn in a monitoring session: a healthy and an unhealthy
\* response, a timeout and an unexpected error.  (A connection error and
\* another request error differ from the unexpected error in the message
\* only; the probe run draws them.)
Outcomes ==
    {ResponseOutcome(200, 1), ResponseOutcome(500, 1),
     ErrorOutcome("Timeout"), ErrorOutcome("Exception")}

\* The outcomes drawn in a probe run: every status code of a response.
AllStatusCodes == 100..999
ProbeOutcomes ==
    {ResponseOutcome(c, 1) : c \in AllStatusCodes}
        \cup {ErrorOutcome(k) : k \in ErrorKinds}

VARIABLES
    urls,                  \* self.urls
    config,                \* self.config
    status_history,        \* self.status_history
    consecutive_failures,  \* self.consecutive_failures
    downtime_start,        \* self.downtime_start: a dict, DOMAIN = its keys
    total_checks,          \* self.total_checks
    total_failures,        \* self.total_failures
    now,                   \* datetime.now()
    pc,                    \* position of the main thread
    idx,                   \* position of "for url in self.urls"
    outcome,               \* how the request in flight ended
    result,                \* what check_url_health returned
    alerts,                \* the alert log (_send_alert, _send_recovery_alert)
    report,                \* the snapshots written by _generate_report, in order
    wait_time,             \* wait_time of start_continuous_monitoring
    summary,               \* the summaries printed, in order
    stop,                  \* why and where the loop was left
    cycles,                \* check cycles started
    recorded,              \* every entry ever handed to record_status
    cf_after,              \* consecutive_failures[url] after each update of url
    calls,                 \* calls made in a history, probe or loader run
    entry_point,           \* the entry point the program was started through
    urls_file,             \* urls.txt: "missing", or "found" with the lines urls
    ini,                   \* config.ini as ConfigLoader.load finds it
    duration_hours,        \* duration_hours: <<>> is None, <<d>> is d seconds
    start_time,            \* self.start_time
    end_time,              \* end_time: <<>> is None
    diagnostics,           \* the error messages printed or logged so far
    earlier,               \* the alerts of each earlier run of the program
    twin                   \* a second monitor fed the same results, or NoTwin

vars == <<urls, config, status_history, consecutive_failures, downtime_start,
          total_checks, total_failures, now, pc, idx, outcome, result, alerts,
          report, wait_time, summary, stop, cycles, recorded, cf_after, calls,
          entry_point, urls_file, ini, duration_hours, start_time, end_time,
          diagnostics, earlier, twin>>

\* What a started program does not change once monitoring has begun.
launchVars == <<urls, config, entry_point, urls_file, ini, duration_hours,
                start_time, end_time, earlier, twin>>

\* The variables of the monitor object proper.
monitorVars == <<status_history, consecutive_failures, downtime_start,
                 total_checks, total_failures, alerts, recorded, cf_after>>

NoOutcome == [kind |-> "none", status_code |-> 0, elapsed |-> 0]
NoResult == [raised |-> FALSE, is_healthy |-> FALSE, status_code |-> 0,
             response_time |-> 0, message |-> "none"]
NotStopped == [reason |-> "running", at |-> "none"]

----------------------------------------------------------------------------
(***************************************************************************)
(* check_url_health: the result of one probe.  raised is TRUE when the     *)
(* exception leaves the function instead of being turned into a result.    *)
(***************************************************************************)
Returned(is_healthy, status_code, response_time, message) ==
    [raised |-> FALSE, is_healthy |-> is_healthy, status_code |-> status_code,
     response_time |-> response_time, message |-> message]

\* check_url_health with the timeout reported as taking no time.
check_url_health_TimeoutZero(o, cfg) ==
    CASE o.kind = "response" ->
            Returned(o.status_code \in cfg.healthy_status_codes,
                     o.status_code, o.elapsed, "OK")
      [] o.kind = "Timeout" ->
            Returned(FALSE, 0, 0, "Timeout")
      [] OTHER ->
            Returned(FALSE, 0, 0, "Error")

\* check_url_health without its last clause, "except Exception".
check_url_health_NoCatchAll(o, cfg) ==
    CASE o.kind = "response" ->
            Returned(o.status_code \in cfg.healthy_status_codes,
                     o.status_code, o.elapsed, "OK")
      [] o.kind = "Timeout" ->
            Returned(FALSE, 0, cfg.request_timeout, "Timeout")
      [] o.kind = "ConnectionError" ->
            Returned(FALSE, 0, 0, "Connection Error")
      [] o.kind = "RequestException" ->
            Returned(FALSE, 0, 0, "Request Error")
      [] OTHER ->
            [raised |-> TRUE, is_healthy |-> FALSE, status_code |-> 0,
             response_time |-> 0, message |-> "Error"]

check_url_health(o, cfg) ==
    CASE o.kind = "response" ->
            Returned(o.status_code \in cfg.healthy_status_codes,
                     o.status_code, o.elapsed, "OK")
      [] o.kind = "Timeout" ->
            Returned(FALSE, 0, cfg.request_timeout, "Timeout")
      [] o.kind = "ConnectionError" ->
            Returned(FALSE, 0, 0, "Connection Error")
      [] o.kind = "RequestException" ->
            Returned(FALSE, 0, 0, "Request Error")
      [] OTHER ->
            Returned(FALSE, 0, 0, "Error")

\* The seconds the request took on the clock.
ProbeDuration(o, cfg) ==
    IF o.kind = "Timeout" THEN cfg.request_timeout ELSE o.elapsed

\* The history status taken from the arrival of a response.
StatusEntry_AnyResponse(url, r, t) ==
    [timestamp |-> t,
     url |-> url,
     status |-> IF r.status_code # 0 THEN "UP" ELSE "DOWN",
     status_code |-> r.status_code,
     response_time_ms |-> r.response_time * 1000,
     message |-> r.message]

(***************************************************************************)
(* record_status: append the entry, keep the last 1000.                    *)
(***************************************************************************)
StatusEntry(url, r, t) ==
    [timestamp |-> t,
     url |-> url,
     status |-> IF r.is_healthy THEN "UP" ELSE "DOWN",
     status_code |-> r.status_code,
     response_time_ms |-> r.response_time * 1000,   \* f"{response_time:.3f}s"
     message |-> r.message]

LastEntries(h, n) ==
    IF Len(h) > n THEN SubSeq(h, Len(h) - n + 1, Len(h)) ELSE h

\* record_status putting the new entry in front.
record_status_Prepend(h, entry) ==
    LastEntries(<<entry>> \o h, HISTORY_LIMIT)

\* record_status keeping the first 1000 entries instead of the last.
record_status_KeepOldest(h, entry) ==
    LET appended == Append(h, entry)
    IN  IF Len(appended) > HISTORY_LIMIT
        THEN SubSeq(appended, 1, HISTORY_LIMIT)
        ELSE appended

record_status(h, entry) ==
    LET appended == Append(h, entry)
    IN  IF Len(appended) > HISTORY_LIMIT
        THEN LastEntries(appended, HISTORY_LIMIT)
        ELSE appended

----------------------------------------------------------------------------
(***************************************************************************)
(* handle_failure and handle_success: the tests and the dict updates.      *)
(***************************************************************************)
\* The downtime marked at the second failure instead of the first.
IsFirstFailure_AtSecond(cf) == cf = 2

\* downtime_start set again at every failure.
IsFirstFailure_Always(cf) == cf >= 1

\* "if self.consecutive_failures[url] == 1"
IsFirstFailure(cf) == cf = 1

\* The alert test passed one failure after the threshold.
ThresholdReached_OneLate(cf, cfg) == cf = cfg.alert_threshold + 1

\* The alert test with >= instead of ==.
ThresholdReached_AtLeast(cf, cfg) == cf >= cfg.alert_threshold

\* "if self.consecutive_failures[url] == self.config['alert_threshold']"
ThresholdReached(cf, cfg) == cf = cfg.alert_threshold

\* was_down true after any failure.
WasDown_AnyFailure(cf, cfg) == cf > 0

\* "was_down = self.consecutive_failures[url] >= self.config['alert_threshold']"
WasDown(cf, cfg) == cf >= cfg.alert_threshold

\* self.downtime_start[url] = datetime.now()
SetDowntimeStart(ds, url, t) ==
    [u \in (DOMAIN ds) \cup {url} |-> IF u = url THEN t ELSE ds[u]]

\* self.downtime_start.clear()
PopDowntimeStart_All(ds, url) == <<>>

\* self.downtime_start.pop(url, None)
PopDowntimeStart(ds, url) ==
    [u \in (DOMAIN ds) \ {url} |-> ds[u]]

\* self.downtime_start.get(url, datetime.now())
GetDowntimeStart(ds, url, t) ==
    IF url \in DOMAIN ds THEN ds[url] ELSE t

\* The entry of the alert log; email is what became of the email for it.
DownAlert(url, r, cf, t, pos, email) ==
    [kind |-> "Down", url |-> url, status_code |-> r.status_code,
     message |-> r.message, consecutive_failures |-> cf,
     downtime |-> 0, time |-> t, pos |-> pos, email |-> email]

RecoveredAlert(url, downtime, cf, t, pos, email) ==
    [kind |-> "Recovered", url |-> url, status_code |-> 0,
     message |-> "UP", consecutive_failures |-> cf,
     downtime |-> downtime, time |-> t, pos |-> pos, email |-> email]

\* How the delivery of an email can end: "off" when no email is sent
\* (ENABLE_EMAIL_ALERTS is False, or the program is run.py, which logs only).
Deliveries(e, cfg) ==
    IF e = "hcm_main" /\ cfg.email_enabled THEN {"sent", "failed"} ELSE {"off"}

\* The email code without its try/except.
send_email_NoCatch(delivery) ==
    [raised |-> delivery = "failed", email |-> delivery]

\* _send_email_alert, _send_recovery_email: the error of a failed delivery is
\* logged inside, none leaves.
send_email(delivery) ==
    [raised |-> FALSE, email |-> delivery]

\* all(...) instead of any(...).
AllFailing(list, cf) == \A i \in 1..Len(list) : cf[list[i]] > 0

\* any(self.consecutive_failures[url] > 0 for url in self.urls)
AnyFailing(list, cf) == \E i \in 1..Len(list) : cf[list[i]] > 0

\* The wait before the next cycle.
NextWait(list, cf, cfg) ==
    IF AnyFailing(list, cf) THEN cfg.quick_check_interval
    ELSE cfg.check_interval

----------------------------------------------------------------------------
(***************************************************************************)
(* _generate_report, get_status_summary and the final summary.             *)
(***************************************************************************)
\* The oldest entry instead of the latest.
Latest_Oldest(h) == IF Len(h) > 0 THEN h[1] ELSE [status |-> "UNKNOWN"]

Latest(h) == IF Len(h) > 0 THEN h[Len(h)] ELSE [status |-> "UNKNOWN"]

UrlSet(list) == {list[i] : i \in 1..Len(list)}

\* f"{(self.total_failures / max(self.total_checks, 1) * 100):.2f}%", in
\* hundredths of a percent, rounded to the nearest.
FailureRate(failures, checks) ==
    LET d == IF checks > 1 THEN checks ELSE 1
    IN  (2 * failures * 10000 + d) \div (2 * d)

\* A snapshot whose total_checks counts the snapshots written before it.
ReportData_CountingExports(list, hist, cf, checks, failures, t, started) ==
    [timestamp |-> t,
     monitoring_duration_seconds |-> t - started,
     total_checks |-> checks + Len(report),
     total_failures |-> failures,
     failure_rate |-> FailureRate(failures, checks + Len(report)),
     monitored_urls |-> Len(list),
     url_status_summary |->
        [u \in UrlSet(list) |->
            [current_status |-> Latest(hist[u]).status,
             consecutive_failures |-> cf[u],
             last |-> Latest(hist[u])]]]

\* report_data of _generate_report
ReportData(list, hist, cf, checks, failures, t, started) ==
    [timestamp |-> t,
     monitoring_duration_seconds |-> t - started,
     total_checks |-> checks,
     total_failures |-> failures,
     failure_rate |-> FailureRate(failures, checks),
     monitored_urls |-> Len(list),
     url_status_summary |->
        [u \in UrlSet(list) |->
            [current_status |-> Latest(hist[u]).status,
             consecutive_failures |-> cf[u],
             last |-> Latest(hist[u])]]]

\* get_status_summary counts the entries of self.urls with a latest status.
CountUrls(list, hist, status) ==
    Cardinality({i \in 1..Len(list) : Latest(hist[list[i]]).status = status})

FinalSummary(list, hist, checks, failures) ==
    <<[total_checks |-> checks,
       total_failures |-> failures,
       urls_monitored |-> Len(list),
       healthy_urls |-> CountUrls(list, hist, "UP"),
       unhealthy_urls |-> CountUrls(list, hist, "DOWN")]>>

----------------------------------------------------------------------------
(***************************************************************************)
(* The monitoring session.                                                 *)
(***************************************************************************)
DefaultConfig(threshold) ==
    [check_interval |-> CHECK_INTERVAL,
     quick_check_interval |-> QUICK_CHECK_INTERVAL,
     request_timeout |-> REQUEST_TIMEOUT,
     alert_threshold |-> threshold,
     healthy_status_codes |-> HEALTHY_STATUS_CODES,
     email_enabled |-> FALSE]

\* ConfigLoader.get_defaults()
get_defaults == DefaultConfig(CONSECUTIVE_FAILURES_THRESHOLD)

(***************************************************************************)
(* config.ini.  The text of a setting is the sequence of its characters;   *)
(* a setting that is not in the file has present = FALSE.                  *)
(***************************************************************************)
Absent == [present |-> FALSE, text |-> <<>>]
Text(t) == [present |-> TRUE, text |-> t]

DigitChars == <<"0", "1", "2", "3", "4", "5", "6", "7", "8", "9">>
IsDigit(c) == \E d \in 1..10 : DigitChars[d] = c
DigitValue(c) == (CHOOSE d \in 1..10 : DigitChars[d] = c) - 1

\* int(text): an optional sign, then one or more decimal digits.
Unsigned(t) == IF Len(t) > 0 /\ t[1] \in {"-", "+"} THEN Tail(t) ELSE t
IsInt(t) ==
    /\ Len(Unsigned(t)) > 0
    /\ \A i \in 1..Len(Unsigned(t)) : IsDigit(Unsigned(t)[i])

RECURSIVE DigitsValue(_)
DigitsValue(t) ==
    IF Len(t) = 0 THEN 0
    ELSE 10 * DigitsValue(SubSeq(t, 1, Len(t) - 1)) + DigitValue(t[Len(t)])

ParseInt(t) ==
    IF Len(t) > 0 /\ t[1] = "-" THEN 0 - DigitsValue(Unsigned(t))
    ELSE DigitsValue(Unsigned(t))

\* str(n), as setup_config.py writes a number into the file.
RECURSIVE DigitsOf(_)
DigitsOf(n) ==
    IF n < 10 THEN <<DigitChars[n + 1]>>
    ELSE Append(DigitsOf(n \div 10), DigitChars[(n % 10) + 1])

IntText(n) == IF n < 0 THEN <<"-">> \o DigitsOf(0 - n) ELSE DigitsOf(n)

IntSettings == {"check_interval", "quick_check_interval", "request_timeout",
                "alert_threshold"}

\* config.getint(section, option, fallback=...): the fallback stands in for
\* an option that is not there; the text of one that is there goes to int().
GetIntRaises(setting) == setting.present /\ ~IsInt(setting.text)
getint(setting, fallback) ==
    IF setting.present THEN ParseInt(setting.text) ELSE fallback

\* [int(c.strip()) for c in config.get(...).split(',')]
CodesRaise(setting) ==
    setting.present /\ \E i \in 1..Len(setting.text) : ~IsInt(setting.text[i])
getcodes(setting, fallback) ==
    IF setting.present
    THEN {ParseInt(setting.text[i]) : i \in 1..Len(setting.text)}
    ELSE fallback

NoIni == [exists |-> FALSE,
          settings |-> [k \in IntSettings |-> Absent],
          codes |-> Absent]

\* A config.ini that sets alert_threshold and nothing else.
IniWithThreshold(t) ==
    [exists |-> TRUE,
     settings |-> [k \in IntSettings |->
                     IF k = "alert_threshold" THEN Text(IntText(t)) ELSE Absent],
     codes |-> Absent]

\* ConfigLoader.load(): raised is TRUE when the ValueError of int() leaves it.
load(file) ==
    IF ~file.exists THEN [raised |-> FALSE, value |-> get_defaults]
    ELSE IF \/ \E k \in IntSettings : GetIntRaises(file.settings[k])
            \/ CodesRaise(file.codes)
    THEN [raised |-> TRUE, value |-> get_defaults]
    ELSE [raised |-> FALSE,
          value |->
            [check_interval |->
                getint(file.settings["check_interval"], CHECK_INTERVAL),
             quick_check_interval |->
                getint(file.settings["quick_check_interval"],
                       QUICK_CHECK_INTERVAL),
             request_timeout |->
                getint(file.settings["request_timeout"], REQUEST_TIMEOUT),
             alert_threshold |->
                getint(file.settings["alert_threshold"],
                       CONSECUTIVE_FAILURES_THRESHOLD),
             healthy_status_codes |->
                getcodes(file.codes, HEALTHY_STATUS_CODES),
             email_enabled |-> FALSE]]

(***************************************************************************)
(* The entry points: main of health_check_monitor.py, the menu of run.py   *)
(* (choices 1 and 2) and its command line (--once, --continuous).          *)
(***************************************************************************)
EntryPoints == {"hcm_main", "menu_once", "menu_continuous", "cli_once",
                "cli_continuous"}
Continuous(e) == e \in {"hcm_main", "menu_continuous", "cli_continuous"}

\* What the entry point says when the monitor has no URLs.
NoUrlsMessage(e) ==
    IF e = "hcm_main"
    THEN <<"ERROR: No URLs found in configuration file!">>
    ELSE IF e \in {"menu_once", "menu_continuous"}
    THEN <<"ERROR: No URLs found in urls.txt">>
    ELSE <<>>

\* What _load_urls logs: an error when the file is not there.
LoadUrlsLog(e, file) ==
    IF file # "missing" THEN <<>>
    ELSE IF e = "hcm_main" THEN <<"URLs file not found: urls.txt">>
    ELSE <<"urls.txt not found">>

\* duration_hours of start_continuous_monitoring, in seconds of the clock:
\* None, or the shortest wait (timedelta(hours=...) takes a fraction).
ShortDuration == QUICK_CHECK_INTERVAL
DurationInputs == {<<>>, <<ShortDuration>>}

\* The end time computed for every duration given, 0 included.
EndTime_ZeroCounts(t, d) == IF Len(d) > 0 THEN <<t + d[1]>> ELSE <<>>

\* end_time = start_time + timedelta(hours=duration_hours)
\*            if duration_hours else None
EndTime(t, d) == IF Len(d) > 0 /\ d[1] # 0 THEN <<t + d[1]>> ELSE <<>>

\* if end_time and datetime.now() >= end_time
DurationElapsed_Never(e, t) == FALSE
DurationElapsed(e, t) == Len(e) > 0 /\ t >= e[1]

\* HealthCheckMonitor.__init__ with the lines of urls.txt and the loaded
\* configuration.
Constructed(list, cfg) ==
    /\ urls = list
    /\ config = cfg
    /\ status_history = [u \in URLS |-> <<>>]
    /\ consecutive_failures = [u \in URLS |-> 0]
    /\ downtime_start = <<>>
    /\ total_checks = 0
    /\ total_failures = 0
    /\ now = 0
    /\ start_time = 0
    /\ idx = 0
    /\ outcome = NoOutcome
    /\ result = NoResult
    /\ alerts = <<>>
    /\ report = <<>>
    /\ wait_time = 0
    /\ summary = <<>>
    /\ stop = NotStopped
    /\ cycles = 0
    /\ recorded = [u \in URLS |-> <<>>]
    /\ cf_after = [u \in URLS |-> <<>>]
    /\ calls = 0
    /\ end_time = <<>>

\* No second monitor runs alongside.
NoTwin == [monitor |-> "none"]

\* The program as started: the entry point, urls.txt, config.ini and the
\* duration asked for.
Launched(e, file, inifile, d) ==
    /\ entry_point = e
    /\ urls_file = file
    /\ ini = inifile
    /\ duration_hours = d
    /\ diagnostics = LoadUrlsLog(e, file)
    /\ earlier = <<>>
    /\ twin = NoTwin

\* run.py, started from its menu with any alert_threshold in config.ini, or
\* from its command line with the threshold of the defaults.
InitRun ==
    \E e \in EntryPoints \ {"hcm_main"}, t \in Thresholds,
       list \in UrlLists, file \in {"missing", "found"}, d \in DurationInputs :
        /\ e \in {"cli_once", "cli_continuous"} =>
              t = CONSECUTIVE_FAILURES_THRESHOLD /\ d = <<>>
        /\ ~Continuous(e) => d = <<>>
        /\ file = "missing" => list = <<>>
        /\ Launched(e, file, IniWithThreshold(t), d)
        /\ Constructed(list, load(IniWithThreshold(t)).value)

\* health_check_monitor.py: the Config class, with or without email alerts.
InitHcm ==
    \E em \in BOOLEAN, list \in UrlLists, file \in {"missing", "found"},
       d \in DurationInputs :
        /\ file = "missing" => list = <<>>
        /\ Launched("hcm_main", file, NoIni, d)
        /\ Constructed(list, [get_defaults EXCEPT !.email_enabled = em])

Init ==
    /\ pc = "main"
    /\ (InitRun \/ InitHcm)

url == urls[idx]

\* The positions inside the try block of start_continuous_monitoring.
LoopPcs == {"cycle", "probe", "record", "count", "hf_inc", "hf_mark",
            "hf_alert", "hf_total", "hs_alert", "hs_reset", "hs_pop",
            "report", "check_end", "interval", "sleep"}

\* print_summary of run.py: healthy is a counter at 0.
print_summary(list, cf, checks, failures) ==
    LET healthy == Cardinality({i \in 1..Len(list) : cf[list[i]] = 0}) IN
    <<[total_checks |-> checks,
       total_failures |-> failures,
       urls_monitored |-> Len(list),
       healthy_urls |-> healthy,
       unhealthy_urls |-> Len(list) - healthy]>>

\* The summary the program in hand prints.
SummaryNow ==
    IF entry_point = "hcm_main"
    THEN FinalSummary(urls, status_history, total_checks, total_failures)
    ELSE print_summary(urls, consecutive_failures, total_checks, total_failures)

\* except Exception as e: self.logger.error(...); a KeyboardInterrupt is
\* reported as a stop by the user, not as an error.
LoopErrorLog(reason) ==
    IF reason = "error" THEN <<"Error during monitoring">> ELSE <<>>

\* Leaving the loop without the finally clause.
Leave_NoFinally(reason) ==
    /\ stop' = [reason |-> reason, at |-> pc]
    /\ diagnostics' = diagnostics \o LoopErrorLog(reason)
    /\ summary' = IF reason = "error" THEN summary ELSE summary \o SummaryNow
    /\ pc' = "done"

\* Leaving the try block: the except clause, then finally the summary.
Leave(reason) ==
    /\ stop' = [reason |-> reason, at |-> pc]
    /\ diagnostics' = diagnostics \o LoopErrorLog(reason)
    /\ summary' = summary \o SummaryNow
    /\ pc' = "done"

\* An exception or a KeyboardInterrupt in the single cycle of --once and of
\* menu choice 1: nothing catches it.
Crash(reason) ==
    /\ stop' = [reason |-> reason, at |-> pc]
    /\ diagnostics' = Append(diagnostics, "Traceback (most recent call last)")
    /\ summary' = summary
    /\ pc' = "crashed"

\* No except clause around the loop: every exception is a crash.
Exit_Uncaught(reason) == Crash(reason)

\* Where an exception raised at this position goes.
Exit(reason) == IF Continuous(entry_point) THEN Leave(reason) ELSE Crash(reason)

\* The end of the body of "for url in self.urls".
NextUrl ==
    IF idx < Len(urls)
    THEN idx' = idx + 1 /\ pc' = "probe"
    ELSE idx' = idx /\ pc' = "report"

\* The entry point: no URLs, no monitoring; otherwise the single cycle, or
\* the prologue of start_continuous_monitoring.
Main ==
    /\ pc = "main"
    /\ IF Len(urls) = 0
       THEN /\ pc' = "halted"
            /\ diagnostics' = diagnostics \o NoUrlsMessage(entry_point)
            /\ end_time' = end_time
       ELSE /\ pc' = "cycle"
            /\ diagnostics' = diagnostics
            /\ end_time' = IF Continuous(entry_point)
                           THEN EndTime(now, duration_hours)
                           ELSE end_time
    /\ UNCHANGED <<urls, config, entry_point, urls_file, ini, duration_hours,
                   start_time, earlier, twin, monitorVars, now, idx, outcome,
                   result, report, wait_time, summary, stop, cycles, calls>>

\* while True: self.run_single_check_cycle()
StartCycle ==
    /\ pc = "cycle"
    /\ total_checks + Len(urls) <= MaxChecks
    /\ cycles' = cycles + 1
    /\ idx' = 1
    /\ pc' = "probe"
    /\ UNCHANGED <<launchVars, diagnostics, monitorVars, now, outcome, result,
                   report, wait_time, summary, stop, calls>>

\* ... = self.check_url_health(url)
Probe ==
    /\ pc = "probe"
    /\ \E o \in Outcomes :
        LET r == check_url_health(o, config) IN
        /\ outcome' = o
        /\ now' = now + ProbeDuration(o, config)
        /\ IF r.raised
           THEN /\ Exit("error")
                /\ UNCHANGED result
           ELSE /\ result' = r
                /\ pc' = "record"
                /\ UNCHANGED <<summary, stop, diagnostics>>
    /\ UNCHANGED <<launchVars, monitorVars, idx, report, wait_time,
                   cycles, calls>>

\* self.record_status(url, is_healthy, status_code, response_time, message)
Record ==
    /\ pc = "record"
    /\ LET entry == StatusEntry(url, result, now) IN
        /\ status_history' =
              [status_history EXCEPT ![url] = record_status(@, entry)]
        /\ recorded' = [recorded EXCEPT ![url] = Append(@, entry)]
    /\ pc' = "count"
    /\ UNCHANGED <<launchVars, diagnostics, consecutive_failures, downtime_start,
                   total_checks, total_failures, alerts, cf_after, now, idx,
                   outcome, result, report, wait_time, summary, stop, cycles,
                   calls>>

\* total_checks counting the unhealthy results only.
Count_OnlyFailures ==
    /\ pc = "count"
    /\ total_checks' = IF result.is_healthy THEN total_checks
                       ELSE total_checks + 1
    /\ pc' = IF result.is_healthy THEN "hs_alert" ELSE "hf_inc"
    /\ UNCHANGED <<launchVars, diagnostics, status_history, consecutive_failures,
                   downtime_start, total_failures, alerts, recorded, cf_after,
                   now, idx, outcome, result, report, wait_time, summary, stop,
                   cycles, calls>>

\* self.total_checks += 1, then the branch on is_healthy
Count ==
    /\ pc = "count"
    /\ total_checks' = total_checks + 1
    /\ pc' = IF result.is_healthy THEN "hs_alert" ELSE "hf_inc"
    /\ UNCHANGED <<launchVars, diagnostics, status_history, consecutive_failures,
                   downtime_start, total_failures, alerts, recorded, cf_after,
                   now, idx, outcome, result, report, wait_time, summary, stop,
                   cycles, calls>>

\* handle_failure: self.consecutive_failures[url] += 1
HfInc ==
    /\ pc = "hf_inc"
    /\ consecutive_failures' = [consecutive_failures EXCEPT ![url] = @ + 1]
    /\ pc' = "hf_mark"
    /\ UNCHANGED <<launchVars, diagnostics, status_history, downtime_start, total_checks,
                   total_failures, alerts, recorded, cf_after, now, idx,
                   outcome, result, report, wait_time, summary, stop, cycles,
                   calls>>

\* handle_failure: mark the start of the downtime on the first failure
HfMark ==
    /\ pc = "hf_mark"
    /\ downtime_start' =
          IF IsFirstFailure(consecutive_failures[url])
          THEN SetDowntimeStart(downtime_start, url, now)
          ELSE downtime_start
    /\ pc' = "hf_alert"
    /\ UNCHANGED <<launchVars, diagnostics, status_history, consecutive_failures,
                   total_checks, total_failures, alerts, recorded, cf_after,
                   now, idx, outcome, result, report, wait_time, summary, stop,
                   cycles, calls>>

\* handle_failure: the alert at the threshold; the update of url is complete
HfAlert ==
    /\ pc = "hf_alert"
    /\ IF ThresholdReached(consecutive_failures[url], config)
       THEN \E d \in Deliveries(entry_point, config) :
              LET sent == send_email(d) IN
              /\ alerts' = Append(alerts,
                                  DownAlert(url, result,
                                            consecutive_failures[url], now,
                                            Len(recorded[url]), sent.email))
              /\ IF sent.raised
                 THEN Exit("error")
                 ELSE pc' = "hf_total" /\ UNCHANGED <<summary, stop, diagnostics>>
       ELSE /\ alerts' = alerts
            /\ pc' = "hf_total"
            /\ UNCHANGED <<summary, stop, diagnostics>>
    /\ cf_after' = [cf_after EXCEPT ![url] = Append(@, consecutive_failures[url])]
    /\ UNCHANGED <<launchVars, status_history, consecutive_failures,
                   downtime_start, total_checks, total_failures, recorded, now,
                   idx, outcome, result, report, wait_time, cycles, calls>>

\* self.total_failures += 1
HfTotal ==
    /\ pc = "hf_total"
    /\ total_failures' = total_failures + 1
    /\ NextUrl
    /\ UNCHANGED <<launchVars, diagnostics, status_history, consecutive_failures,
                   downtime_start, total_checks, alerts, recorded, cf_after,
                   now, outcome, result, report, wait_time, summary, stop,
                   cycles, calls>>

\* handle_success: was_down and the recovery alert
HsAlert ==
    /\ pc = "hs_alert"
    /\ IF WasDown(consecutive_failures[url], config)
       THEN \E d \in Deliveries(entry_point, config) :
              LET sent == send_email(d) IN
              /\ alerts' =
                    Append(alerts,
                           RecoveredAlert(url,
                                          now - GetDowntimeStart(downtime_start,
                                                                 url, now),
                                          consecutive_failures[url], now,
                                          Len(recorded[url]), sent.email))
              /\ IF sent.raised
                 THEN Exit("error")
                 ELSE pc' = "hs_reset" /\ UNCHANGED <<summary, stop, diagnostics>>
       ELSE /\ alerts' = alerts
            /\ pc' = "hs_reset"
            /\ UNCHANGED <<summary, stop, diagnostics>>
    /\ UNCHANGED <<launchVars, status_history, consecutive_failures,
                   downtime_start, total_checks, total_failures, recorded,
                   cf_after, now, idx, outcome, result, report, wait_time,
                   cycles, calls>>

\* handle_success: self.consecutive_failures[url] = 0
HsReset ==
    /\ pc = "hs_reset"
    /\ consecutive_failures' = [consecutive_failures EXCEPT ![url] = 0]
    /\ pc' = "hs_pop"
    /\ UNCHANGED <<launchVars, diagnostics, status_history, downtime_start, total_checks,
                   total_failures, alerts, recorded, cf_after, now, idx,
                   outcome, result, report, wait_time, summary, stop, cycles,
                   calls>>

\* handle_success: self.downtime_start.pop(url, None); the update is complete
HsPop ==
    /\ pc = "hs_pop"
    /\ downtime_start' = PopDowntimeStart(downtime_start, url)
    /\ cf_after' = [cf_after EXCEPT ![url] = Append(@, consecutive_failures[url])]
    /\ NextUrl
    /\ UNCHANGED <<launchVars, diagnostics, status_history, consecutive_failures,
                   total_checks, total_failures, alerts, recorded, now,
                   outcome, result, report, wait_time, summary, stop, cycles,
                   calls>>

\* self._generate_report(): the snapshot is written, or the write fails and
\* the error reaches "except Exception" of the loop.
GenerateReport ==
    /\ pc = "report"
    /\ \/ /\ report' = Append(report,
                              ReportData(urls, status_history,
                                         consecutive_failures, total_checks,
                                         total_failures, now, start_time))
          /\ pc' = IF Continuous(entry_point) THEN "check_end" ELSE "print_summary"
          /\ UNCHANGED <<summary, stop, diagnostics>>
       \/ /\ Exit("error")
          /\ UNCHANGED report
    /\ UNCHANGED <<launchVars, monitorVars, now, idx, outcome, result,
                   wait_time, cycles, calls>>

\* if end_time and datetime.now() >= end_time: break
CheckEnd ==
    /\ pc = "check_end"
    /\ IF DurationElapsed(end_time, now)
       THEN Leave("duration")
       ELSE pc' = "interval" /\ UNCHANGED <<summary, stop, diagnostics>>
    /\ UNCHANGED <<launchVars, monitorVars, now, idx, outcome, result,
                   report, wait_time, cycles, calls>>

\* monitor.print_summary() after the single cycle of --once and choice 1
PrintSummary ==
    /\ pc = "print_summary"
    /\ summary' = summary \o SummaryNow
    /\ stop' = [reason |-> "once", at |-> pc]
    /\ pc' = "done"
    /\ UNCHANGED <<launchVars, diagnostics, monitorVars, now, idx, outcome, result,
                   report, wait_time, cycles, calls>>

\* The wait time is chosen from the counters as they are now.
ChooseInterval ==
    /\ pc = "interval"
    /\ wait_time' = NextWait(urls, consecutive_failures, config)
    /\ pc' = "sleep"
    /\ UNCHANGED <<launchVars, diagnostics, monitorVars, now, idx, outcome, result,
                   report, summary, stop, cycles, calls>>

\* time.sleep(wait_time)
Sleep ==
    /\ pc = "sleep"
    /\ now' = now + wait_time
    /\ pc' = "cycle"
    /\ UNCHANGED <<launchVars, diagnostics, monitorVars, idx, outcome, result, report,
                   wait_time, summary, stop, cycles, calls>>

\* KeyboardInterrupt, delivered between two statements of the loop.
Interrupt ==
    /\ pc \in LoopPcs \cup {"print_summary"}
    /\ Exit("interrupt")
    /\ UNCHANGED <<launchVars, monitorVars, now, idx, outcome, result,
                   report, wait_time, cycles, calls>>

Next ==
    \/ Main
    \/ StartCycle
    \/ Probe
    \/ Record
    \/ Count
    \/ HfInc
    \/ HfMark
    \/ HfAlert
    \/ HfTotal
    \/ HsAlert
    \/ HsReset
    \/ HsPop
    \/ GenerateReport
    \/ CheckEnd
    \/ PrintSummary
    \/ ChooseInterval
    \/ Sleep
    \/ Interrupt

Spec == Init /\ [][Next]_vars

----------------------------------------------------------------------------
(***************************************************************************)
(* Reading the run of one URL off the state: the results recorded for it,  *)
(* the updates completed for it and the alerts emitted for it.             *)
(***************************************************************************)
Threshold == config.alert_threshold

\* The consecutive DOWN entries of h that end at position p.
RECURSIVE Streak(_, _)
Streak(h, p) ==
    IF p = 0 THEN 0
    ELSE IF h[p].status = "DOWN" THEN 1 + Streak(h, p - 1) ELSE 0

\* Updates of u that have run to their end.
Updated(u) == Len(cf_after[u])

\* The alerts of one kind emitted for u while its results s..e were processed.
AlertsAt(u, kind, s, e) ==
    {i \in 1..Len(alerts) :
        /\ alerts[i].url = u
        /\ alerts[i].kind = kind
        /\ alerts[i].pos \in s..e}

\* No update is under way, and none was abandoned part-way.
UpdatesComplete ==
    (IF pc \in {"done", "crashed"} THEN stop.at ELSE pc)
        \notin {"hf_mark", "hs_pop"}

Consistent(u) ==
    (consecutive_failures[u] = 0) <=> (u \notin DOMAIN downtime_start)

StatusesOf(u) == [i \in 1..Len(recorded[u]) |-> recorded[u][i].status]

AlertTrace(u) ==
    LET RECURSIVE Pick(_)
        Pick(i) ==
            IF i > Len(alerts) THEN <<>>
            ELSE IF alerts[i].url = u
                 THEN <<(<<alerts[i].kind, alerts[i].pos>>)>> \o Pick(i + 1)
                 ELSE Pick(i + 1)
    IN  Pick(1)

----------------------------------------------------------------------------
\* C1: after every completed update (handle_failure or handle_success), for
\* every URL, consecutive_failures[url] = 0 exactly when downtime_start has
\* no entry for the URL.
C1_CounterMatchesDowntime ==
    UpdatesComplete => \A u \in URLS : Consistent(u)

\* C1 witness: a URL failed, then recovered, and its update is complete.
C1_Witness ==
    /\ UpdatesComplete
    /\ \E u \in URLS :
          /\ Updated(u) >= 2
          /\ cf_after[u][1] > 0
          /\ consecutive_failures[u] = 0
          /\ u \notin DOMAIN downtime_start
    /\ \E u \in URLS : consecutive_failures[u] > 0

\* C2 (as claimed): every run of threshold + k consecutive failures of a URL
\* (k >= 0) that starts from a counter of 0 emits exactly one Down alert, at
\* the update where the counter first equals the threshold.
C2_OneDownAlertPerRun ==
    \A u \in URLS : \A e \in 1..Updated(u) :
        LET h == recorded[u]
            n == Streak(h, e)
            s == e - n + 1
        IN  (n >= 1 /\ n >= Threshold) =>
                /\ Cardinality(AlertsAt(u, "Down", s, e)) = 1
                /\ \A i \in AlertsAt(u, "Down", s, e) :
                      /\ alerts[i].pos = s + Threshold - 1
                      /\ alerts[i].consecutive_failures = Threshold

\* C2, for thresholds of at least 1 only.
C2_OneDownAlertPerRun_PositiveThreshold ==
    Threshold >= 1 => C2_OneDownAlertPerRun

\* C3 (as claimed): the first healthy result after a URL reached the Down
\* state emits exactly one Recovered alert with a downtime >= 0 and resets the
\* counter; the healthy results that follow it emit no Recovered alert.
C3_OneRecoveredPerIncident ==
    \A u \in URLS : \A p \in 2..Updated(u) :
        LET h == recorded[u] IN
        (h[p].status = "UP" /\ Streak(h, p - 1) >= 1
            /\ Streak(h, p - 1) >= Threshold) =>
            /\ Cardinality(AlertsAt(u, "Recovered", p, p)) = 1
            /\ \A i \in AlertsAt(u, "Recovered", p, p) : alerts[i].downtime >= 0
            /\ cf_after[u][p] = 0
            /\ \A q \in (p + 1)..Updated(u) :
                  (\A j \in p..q : h[j].status = "UP") =>
                      AlertsAt(u, "Recovered", q, q) = {}

\* C3, for thresholds of at least 1 only.
C3_OneRecoveredPerIncident_PositiveThreshold ==
    Threshold >= 1 => C3_OneRecoveredPerIncident

\* C4: a run of failures that stays strictly below the threshold and is
\* followed by a healthy result emits no alert, neither Down nor Recovered,
\* and the counter is back at 0 (threshold 2, one failure then one success:
\* no alert, counters 1, 0).
C4_SilentBelowThreshold ==
    \A u \in URLS : \A p \in 2..Updated(u) :
        LET h == recorded[u]
            n == Streak(h, p - 1)
        IN  (h[p].status = "UP" /\ n >= 1 /\ n < Threshold) =>
                /\ AlertsAt(u, "Down", p - n, p) = {}
                /\ AlertsAt(u, "Recovered", p - n, p) = {}
                /\ cf_after[u][p] = 0
                /\ cf_after[u][p - 1] = n

\* C4 witness: threshold 2, one failure then one success, counters 1, 0.
C4_Witness ==
    /\ Threshold = 2
    /\ \E u \in URLS :
          /\ StatusesOf(u) = <<"DOWN", "UP">>
          /\ cf_after[u] = <<1, 0>>
          /\ AlertTrace(u) = <<>>

\* C6: with threshold 2, three consecutive failures and then one healthy
\* result of a URL give exactly a Down alert during the 2nd failure and a
\* Recovered alert during the success, and the counter after the four updates
\* is 1, 2, 3, 0.
C6_ThreeFailuresThenSuccess ==
    \A u \in URLS :
        (/\ Threshold = 2
         /\ StatusesOf(u) = <<"DOWN", "DOWN", "DOWN", "UP">>
         /\ Updated(u) = 4) =>
            /\ AlertTrace(u) = <<(<<"Down", 2>>), (<<"Recovered", 4>>)>>
            /\ cf_after[u] = <<1, 2, 3, 0>>

\* C6 witness: the scenario has run to its end.
C6_Witness ==
    /\ Threshold = 2
    /\ \E u \in URLS :
          /\ StatusesOf(u) = <<"DOWN", "DOWN", "DOWN", "UP">>
          /\ Updated(u) = 4
          /\ Len(alerts) = 2

\* C7: the wait before the next cycle is the quick-check interval if a
\* monitored URL has consecutive_failures > 0 after the cycle, and the normal
\* interval otherwise.
C7_IntervalPolicy ==
    pc = "sleep" =>
        wait_time =
            IF \E u \in UrlSet(urls) : consecutive_failures[u] > 0
            THEN config.quick_check_interval
            ELSE config.check_interval

\* C7 witness: one URL has failed once, below the threshold, the other is
\* healthy, and the quick-check interval was chosen.
C7_Witness ==
    /\ pc = "sleep"
    /\ Threshold = 2
    /\ \E u, v \in UrlSet(urls) :
          /\ consecutive_failures[u] = 1
          /\ consecutive_failures[v] = 0
          /\ Updated(v) >= 1
    /\ wait_time = config.quick_check_interval

\* C7 witness of the other branch, after an earlier cycle with a failure.
C7_WitnessNormal ==
    /\ pc = "sleep"
    /\ cycles >= 2
    /\ total_failures > 0
    /\ wait_time = config.check_interval

\* C9: check_url_health raises nothing: every failure of the request comes
\* back as an unhealthy result, so every URL of a cycle is probed and
\* processed whatever the probes of the others ended in.
C9_ProbeNeverRaises ==
    /\ stop.reason = "error" => stop.at = "report"
    /\ (pc = "record" /\ outcome.kind \in ErrorKinds) =>
          (~result.raised /\ ~result.is_healthy)
    /\ pc \in {"report", "interval", "sleep"} =>
          total_checks = cycles * Len(urls)

\* C9 witness: the probe of the first URL ended in an unexpected error and
\* the second URL was probed and processed in the same cycle.
C9_Witness ==
    /\ pc = "report"
    /\ cycles = 1
    /\ Len(urls) = 2
    /\ urls[1] # urls[2]
    /\ recorded[urls[1]][1].message = "Error"
    /\ Updated(urls[2]) = 1

\* C10 (as claimed): when a KeyboardInterrupt ends the loop, at the final
\* summary every URL has consecutive_failures = 0 exactly when it has no
\* downtime_start, and every result in a history has been applied to the
\* counter of its URL and to total_checks.
C10_NoPartialUpdateOnInterrupt ==
    (pc = "done" /\ stop.reason = "interrupt") =>
        /\ \A u \in URLS :
              /\ Consistent(u)
              /\ consecutive_failures[u] = Streak(recorded[u], Len(recorded[u]))
        /\ total_checks = Len(recorded["A"]) + Len(recorded["B"])

----------------------------------------------------------------------------
(***************************************************************************)
(* record_status on its own: histories of a long session, at and around    *)
(* the limit, and a few more calls.                                        *)
(***************************************************************************)
\* The history of u after n healthy checks, one a second.
LongHistory(u, n) ==
    [i \in 1..n |-> StatusEntry(u, Returned(TRUE, 200, 0, "OK"), i)]

\* The results recorded in a history run: one UP, one DOWN.
RecordOutcomes == {ResponseOutcome(200, 1), ErrorOutcome("Timeout")}

HistoryLengths == {0} \cup ((HISTORY_LIMIT - 2)..HISTORY_LIMIT)

InitHist ==
    /\ pc = "record_status"
    /\ \E n \in HistoryLengths :
          /\ status_history = [u \in URLS |-> LongHistory(u, n)]
          /\ recorded = [u \in URLS |-> LongHistory(u, n)]
          /\ now = n + 1
    /\ urls = <<"A", "B">>
    /\ config = DefaultConfig(CONSECUTIVE_FAILURES_THRESHOLD)
    /\ Launched("menu_continuous", "found", NoIni, <<>>)
    /\ start_time = 0
    /\ end_time = <<>>
    /\ consecutive_failures = [u \in URLS |-> 0]
    /\ downtime_start = <<>>
    /\ total_checks = 0
    /\ total_failures = 0
    /\ idx = 0
    /\ outcome = NoOutcome
    /\ result = NoResult
    /\ alerts = <<>>
    /\ report = <<>>
    /\ wait_time = 0
    /\ summary = <<>>
    /\ stop = NotStopped
    /\ cycles = 0
    /\ cf_after = [u \in URLS |-> <<>>]
    /\ calls = 0

\* One call of record_status, a second after the last.
RecordCall ==
    /\ pc = "record_status"
    /\ calls < MaxRecordCalls
    /\ \E i \in 1..Len(urls), o \in RecordOutcomes :
        LET r == check_url_health(o, config)
            entry == StatusEntry(urls[i], r, now)
        IN  /\ idx' = i
            /\ outcome' = o
            /\ result' = r
            /\ status_history' =
                  [status_history EXCEPT ![urls[i]] = record_status(@, entry)]
            /\ recorded' = [recorded EXCEPT ![urls[i]] = Append(@, entry)]
    /\ now' = now + 1
    /\ calls' = calls + 1
    /\ UNCHANGED <<launchVars, diagnostics, consecutive_failures, downtime_start,
                   total_checks, total_failures, alerts, cf_after, pc, report,
                   wait_time, summary, stop, cycles>>

NextHist == RecordCall

SpecHist == InitHist /\ [][NextHist]_vars

\* C5: after every record_status call the history of every URL has at most
\* 1000 entries, and it is the most recent 1000 results (all of them while
\* there are fewer) in insertion order, the last one being the result just
\* appended.
C5_HistoryIsLastThousand ==
    \A u \in URLS :
        LET h == status_history[u]
            all == recorded[u]
        IN  /\ Len(h) <= HISTORY_LIMIT
            /\ Len(h) = IF Len(all) < HISTORY_LIMIT THEN Len(all) ELSE HISTORY_LIMIT
            /\ \A i \in 1..Len(h) : h[i] = all[Len(all) - Len(h) + i]
            /\ (calls > 0 /\ u = urls[idx]) =>
                  h[Len(h)] = StatusEntry(u, result, now - 1)
            /\ Len(all) > 0 => h[Len(h)] = all[Len(all)]

\* C5 witness: more than 1000 results were recorded for a URL, so the oldest
\* were dropped, and the call before left the history full.
C5_Witness ==
    /\ calls >= 2
    /\ \E u \in URLS :
          /\ Len(recorded[u]) = HISTORY_LIMIT + 2
          /\ Len(status_history[u]) = HISTORY_LIMIT
          /\ status_history[u][1].timestamp = 3

----------------------------------------------------------------------------
(***************************************************************************)
(* check_url_health on its own: every outcome of the request.              *)
(***************************************************************************)
InitProbe ==
    /\ pc = "check_url_health"
    /\ \E list \in [1..1 -> URLS] :
          Constructed(list, DefaultConfig(CONSECUTIVE_FAILURES_THRESHOLD))
    /\ Launched("menu_continuous", "found", NoIni, <<>>)

\* One call of check_url_health.
ProbeCall ==
    /\ pc = "check_url_health"
    /\ calls < MaxProbeCalls
    /\ \E o \in ProbeOutcomes :
          /\ outcome' = o
          /\ result' = check_url_health(o, config)
          /\ now' = now + ProbeDuration(o, config)
    /\ calls' = calls + 1
    /\ UNCHANGED <<launchVars, diagnostics, monitorVars, pc, idx, report, wait_time,
                   summary, stop, cycles>>

NextProbe == ProbeCall

SpecProbe == InitProbe /\ [][NextProbe]_vars

\* C8: a response with a healthy status code gives healthy with that code; a
\* response with any other code gives unhealthy with that code; a timeout
\* gives unhealthy, code 0 and the configured timeout as response time; a
\* connection failure and any other request error give unhealthy, code 0 and
\* response time 0; the code is 0 exactly when no response was received.
C8_ProbeMapping ==
    calls > 0 =>
        /\ ~result.raised
        /\ (outcome.kind = "response"
              /\ outcome.status_code \in config.healthy_status_codes) =>
                 (result.is_healthy /\ result.status_code = outcome.status_code)
        /\ (outcome.kind = "response"
              /\ outcome.status_code \notin config.healthy_status_codes) =>
                 (~result.is_healthy /\ result.status_code = outcome.status_code)
        /\ outcome.kind = "Timeout" =>
              /\ ~result.is_healthy
              /\ result.status_code = 0
              /\ result.response_time = config.request_timeout
        /\ outcome.kind \in {"ConnectionError", "RequestException"} =>
              /\ ~result.is_healthy
              /\ result.status_code = 0
              /\ result.response_time = 0
        /\ (result.status_code = 0) <=> (outcome.kind # "response")

\* C8 witness: a timeout, in the call after a response.
C8_Witness ==
    /\ calls = 2
    /\ outcome.kind = "Timeout"
    /\ result.response_time = REQUEST_TIMEOUT
    /\ now > REQUEST_TIMEOUT

----------------------------------------------------------------------------
\* C11: on every way out of start_continuous_monitoring (KeyboardInterrupt,
\* duration elapsed, unexpected error) the final summary is printed exactly
\* once; it is printed after the last state update (nothing of the monitor
\* changes once it is out, and its totals are the final ones), and no check
\* cycle starts after it.
C11_SummaryOnceOnExit ==
    /\ [](Continuous(entry_point) =>
            /\ Len(summary) <= 1
            /\ (stop.reason # "running") <=> (Len(summary) = 1)
            /\ stop.reason # "running" =>
                  /\ stop.reason \in {"interrupt", "duration", "error"}
                  /\ pc = "done"
                  /\ summary = SummaryNow)
    /\ [][Len(summary) > 0 => UNCHANGED <<monitorVars, cycles, summary>>]_vars

\* C11 witness: the report of the second cycle could not be written; the
\* error ended the loop and the summary was printed.
C11_Witness ==
    /\ Continuous(entry_point)
    /\ stop = [reason |-> "error", at |-> "report"]
    /\ cycles = 2
    /\ Len(summary) = 1
    /\ summary[1].total_checks = 2 * Len(urls)

(***************************************************************************)
(* start_continuous_monitoring with a duration and no stop signal: the     *)
(* main thread keeps running, and the URL lists are those the budget of    *)
(* checks lets through the two cycles the duration takes.                  *)
(***************************************************************************)
InitTimed ==
    /\ pc = "main"
    /\ \E e \in {"hcm_main", "menu_continuous"}, list \in UrlLists :
          /\ Len(list) >= 1
          /\ 2 * Len(list) <= MaxChecks
          /\ Launched(e, "found",
                      IF e = "hcm_main" THEN NoIni
                      ELSE IniWithThreshold(CONSECUTIVE_FAILURES_THRESHOLD),
                      <<ShortDuration>>)
          /\ Constructed(list, get_defaults)

NextTimed ==
    \/ Main
    \/ StartCycle
    \/ Probe
    \/ Record
    \/ Count
    \/ HfInc
    \/ HfMark
    \/ HfAlert
    \/ HfTotal
    \/ HsAlert
    \/ HsReset
    \/ HsPop
    \/ GenerateReport
    \/ CheckEnd
    \/ ChooseInterval
    \/ Sleep

SpecTimed == InitTimed /\ [][NextTimed]_vars /\ WF_vars(NextTimed)

\* C12: with a positive duration and every probe returning, the continuous
\* loop terminates; the duration is tested only after a complete cycle and
\* before the wait, at least one full cycle runs, and the loop is left after
\* the first cycle that finishes at or after the end time, with no wait in
\* between.
C12_DurationEndsLoop ==
    /\ <>(pc = "done")
    /\ [](/\ pc # "main" => end_time = <<start_time + ShortDuration>>
          /\ stop.reason \in {"running", "duration", "error"}
          /\ stop.reason = "duration" =>
                /\ stop.at = "check_end"
                /\ cycles >= 1
                /\ Len(report) = cycles
                /\ total_checks = cycles * Len(urls)
                /\ now >= end_time[1]
          /\ pc \in {"interval", "sleep"} => now < end_time[1]
          /\ (pc = "cycle" /\ cycles >= 1) => now - wait_time < end_time[1])

\* C12 witness: the first cycle ended before the end time and was followed
\* by a wait; the second ended after it and the loop was left.
C12_Witness ==
    /\ pc = "done"
    /\ stop.reason = "duration"
    /\ cycles = 2
    /\ wait_time > 0
    /\ now >= end_time[1]

----------------------------------------------------------------------------
\* C13 (as claimed): when the monitor has no URLs (urls.txt missing, or
\* without a non-blank line), every entry point halts with a diagnostic: no
\* check cycle runs, the loop is not entered, and an error message about the
\* missing URLs is produced.
C13_EmptyUrlSetHalts ==
    (Len(urls) = 0 /\ pc # "main") =>
        /\ pc = "halted"
        /\ cycles = 0
        /\ total_checks = 0
        /\ Len(diagnostics) >= 1

\* C13 without the message: no entry point runs a cycle without URLs.
C13_NoCycleWithoutUrls ==
    Len(urls) = 0 => (pc \in {"main", "halted"} /\ cycles = 0)

\* C13 for the menu of run.py and main of health_check_monitor.py, and for
\* the command line of run.py when urls.txt is missing: the message is there.
C13_MessageExceptBlankFileOnCommandLine ==
    (/\ Len(urls) = 0
     /\ pc # "main"
     /\ ~(entry_point \in {"cli_once", "cli_continuous"} /\ urls_file = "found"))
        => Len(diagnostics) >= 1

----------------------------------------------------------------------------
Occurrences(u) == Cardinality({i \in 1..Len(urls) : urls[i] = u})

\* The position the main thread is at, or was at when it left.
Position == IF pc \in {"done", "crashed"} THEN stop.at ELSE pc

\* The positions between two cycles.
BetweenCycles == {"check_end", "interval", "sleep", "print_summary"}

\* C14: a Down or Recovered email that cannot be delivered is logged and
\* absorbed: no error leaves the alert call, the counter of the URL after the
\* update is what its results alone determine (and matches downtime_start),
\* the other URLs of the cycle are still processed, and the loop goes on.
C14_EmailFailureAbsorbed ==
    /\ stop.reason = "error" => stop.at \notin {"hf_alert", "hs_alert"}
    /\ \A i \in 1..Len(alerts) :
          alerts[i].email = "failed" =>
              LET u == alerts[i].url
                  n == alerts[i].pos
              IN  /\ Updated(u) >= n =>
                        cf_after[u][n] = Streak(recorded[u], n)
                  /\ (Updated(u) = n /\ Len(recorded[u]) = n) =>
                        /\ consecutive_failures[u] = Streak(recorded[u], n)
                        /\ Consistent(u)
                  /\ (Position \in BetweenCycles \cup {"report"}) =>
                        \A v \in URLS :
                            /\ Len(recorded[v]) = cycles * Occurrences(v)
                            /\ Updated(v) = cycles * Occurrences(v)

\* C14 witness: the Down email for the first URL failed in the second cycle;
\* the second URL was processed in that cycle, the report written, and the
\* loop is waiting for the third cycle.
C14_Witness ==
    /\ pc = "sleep"
    /\ cycles = 2
    /\ Len(urls) = 2
    /\ urls[1] # urls[2]
    /\ Len(alerts) = 1
    /\ alerts[1].kind = "Down"
    /\ alerts[1].email = "failed"
    /\ alerts[1].url = urls[1]
    /\ Updated(urls[2]) = 2
    /\ consecutive_failures[urls[1]] = 2
    /\ urls[1] \in DOMAIN downtime_start

(***************************************************************************)
(* ConfigLoader.load on its own: every config.ini with each setting        *)
(* missing, an integer, or not an integer.                                 *)
(***************************************************************************)
NoConfig ==
    [check_interval |-> 0, quick_check_interval |-> 0, request_timeout |-> 0,
     alert_threshold |-> 0, healthy_status_codes |-> {},
     email_enabled |-> FALSE]

SettingTexts == {Absent, Text(<<"4", "5">>), Text(<<"a", "b", "c">>)}
CodesTexts == {Absent, Text(<<(<<"2", "0", "0">>), (<<"2", "0", "4">>)>>),
               Text(<<(<<"2", "0", "0">>), (<<"o", "k">>)>>)}

IniFiles ==
    {NoIni} \cup
    [exists : {TRUE}, settings : [IntSettings -> SettingTexts],
     codes : CodesTexts]

InitConfig ==
    /\ pc = "load"
    /\ \E file \in IniFiles : Launched("cli_once", "found", file, <<>>)
    /\ Constructed(<<>>, NoConfig)

\* config = ConfigLoader.load()
LoadConfig ==
    /\ pc = "load"
    /\ LET loaded == load(ini) IN
          IF loaded.raised
          THEN pc' = "value_error" /\ config' = config
          ELSE pc' = "loaded" /\ config' = loaded.value
    /\ calls' = calls + 1
    /\ UNCHANGED <<urls, entry_point, urls_file, ini, duration_hours,
                   start_time, end_time, diagnostics, earlier, twin,
                   monitorVars, now, idx, outcome, result, report, wait_time,
                   summary, stop, cycles>>

NextConfig == LoadConfig

SpecConfig == InitConfig /\ [][NextConfig]_vars

\* The documented default of a setting.
DefaultOf(k) ==
    IF k = "check_interval" THEN CHECK_INTERVAL
    ELSE IF k = "quick_check_interval" THEN QUICK_CHECK_INTERVAL
    ELSE IF k = "request_timeout" THEN REQUEST_TIMEOUT
    ELSE CONSECUTIVE_FAILURES_THRESHOLD

\* C15 (as claimed): ConfigLoader.load never fails and returns a complete
\* settings record; a missing config.ini, or a setting that is missing or not
\* valid (a non-integer interval or threshold), gives the documented default
\* for it: 300, 60, 10, 2 and the healthy codes.
C15_LoadFallsBackToDefaults ==
    pc # "load" =>
        /\ pc = "loaded"
        /\ \A k \in IntSettings :
              config[k] =
                 IF ini.exists /\ ini.settings[k].present
                               /\ IsInt(ini.settings[k].text)
                 THEN ParseInt(ini.settings[k].text)
                 ELSE DefaultOf(k)
        /\ (~ini.exists \/ ~ini.codes.present \/ CodesRaise(ini.codes)) =>
              config.healthy_status_codes = HEALTHY_STATUS_CODES

\* C15 for the files without an invalid setting: load returns, with the
\* default for every setting that is missing.
C15_DefaultsForMissingSettings ==
    (/\ pc # "load"
     /\ \A k \in IntSettings : ~GetIntRaises(ini.settings[k])
     /\ ~CodesRaise(ini.codes)) =>
        /\ pc = "loaded"
        /\ \A k \in IntSettings :
              config[k] = IF ini.exists /\ ini.settings[k].present
                          THEN ParseInt(ini.settings[k].text)
                          ELSE DefaultOf(k)
        /\ (~ini.exists \/ ~ini.codes.present) =>
              config.healthy_status_codes = HEALTHY_STATUS_CODES

----------------------------------------------------------------------------
\* The positions at which a result of the URL in hand is being processed.
UpdatePcs == {"record", "count", "hf_inc", "hf_mark", "hf_alert", "hf_total",
              "hs_alert", "hs_reset", "hs_pop"}

Downs(h) == Cardinality({i \in 1..Len(h) : h[i].status = "DOWN"})

RECURSIVE SumOver(_, _)
SumOver(S, f) ==
    IF S = {} THEN 0
    ELSE LET u == CHOOSE v \in S : TRUE IN f[u] + SumOver(S \ {u}, f)

\* Results handed to record_status, and the unhealthy ones among them.
RecordedTotal == SumOver(URLS, [u \in URLS |-> Len(recorded[u])])
RecordedDown == SumOver(URLS, [u \in URLS |-> Downs(recorded[u])])

\* The result in hand that total_checks, or total_failures, has yet to count.
UncountedCheck == IF Position = "count" THEN 1 ELSE 0
UncountedFailure ==
    IF \/ Position \in {"hf_inc", "hf_mark", "hf_alert", "hf_total"}
       \/ (Position = "count" /\ ~result.is_healthy)
    THEN 1 ELSE 0

\* C16: total_checks and total_failures never decrease and start_time never
\* changes; each processed result adds exactly 1 to total_checks, and exactly
\* 1 to total_failures if and only if it is unhealthy, so that
\* 0 <= total_failures <= total_checks throughout.
C16_CountersMonotone ==
    /\ [](/\ 0 <= total_failures
          /\ total_failures <= total_checks
          /\ total_checks = RecordedTotal - UncountedCheck
          /\ total_failures = RecordedDown - UncountedFailure)
    /\ [][/\ total_checks' \in {total_checks, total_checks + 1}
          /\ total_failures' \in {total_failures, total_failures + 1}
          /\ start_time' = start_time]_vars

\* C16 witness: three results processed, two of them unhealthy.
C16_Witness ==
    /\ Position \in BetweenCycles
    /\ total_checks = 3
    /\ total_failures = 2
    /\ RecordedDown = 2

----------------------------------------------------------------------------
DowntimeOf(v) ==
    IF v \in DOMAIN downtime_start THEN <<downtime_start[v]>> ELSE <<>>

\* The alert a URL with results h gives at its i-th result.
ExpectedAlert(h, i, threshold) ==
    IF h[i].status = "DOWN"
    THEN IF Streak(h, i) = threshold THEN <<(<<"Down", i>>)>> ELSE <<>>
    ELSE IF Streak(h, i - 1) >= threshold
         THEN <<(<<"Recovered", i>>)>>
         ELSE <<>>

RECURSIVE ExpectedTrace(_, _, _)
ExpectedTrace(h, n, threshold) ==
    IF n = 0 THEN <<>>
    ELSE ExpectedTrace(h, n - 1, threshold) \o ExpectedAlert(h, n, threshold)

\* C17: processing a result of one URL leaves the history, the counter and
\* the downtime start of every other URL as they were; so the state of a URL
\* and the sequence of its alerts are those its own results give, whatever
\* the order of the URLs in a cycle.
C17_OtherUrlsUntouched ==
    /\ [][\A v \in URLS :
            (\/ status_history'[v] # status_history[v]
             \/ consecutive_failures'[v] # consecutive_failures[v]
             \/ DowntimeOf(v)' # DowntimeOf(v))
                => (pc \in UpdatePcs /\ v = urls[idx])]_vars
    /\ [](\A u \in URLS :
            Updated(u) = Len(recorded[u]) =>
                /\ status_history[u] = recorded[u]
                /\ consecutive_failures[u] = Streak(recorded[u], Len(recorded[u]))
                /\ (u \in DOMAIN downtime_start) <=> (consecutive_failures[u] > 0)
                /\ AlertTrace(u) =
                      ExpectedTrace(recorded[u], Len(recorded[u]), Threshold))

\* C17 witness: two URLs, the first went down and came back while the second
\* stayed down: each has the counter, the downtime start and the alerts of
\* its own results.
C17_Witness ==
    /\ Len(urls) = 2
    /\ urls[1] # urls[2]
    /\ Threshold = 1
    /\ Position \in BetweenCycles
    /\ StatusesOf(urls[1]) = <<"DOWN", "UP">>
    /\ StatusesOf(urls[2]) = <<"DOWN", "DOWN">>
    /\ AlertTrace(urls[1]) = <<(<<"Down", 1>>), (<<"Recovered", 2>>)>>
    /\ AlertTrace(urls[2]) = <<(<<"Down", 1>>)>>
    /\ DOMAIN downtime_start = {urls[2]}

----------------------------------------------------------------------------
\* C18: for each URL the results are processed in the order of the probes,
\* each one appended to the history before the counter is updated: the n-th
\* entry of the history is the n-th result applied to the counter, none
\* skipped, duplicated or reordered.
C18_HistoryThenStateInOrder ==
    \A u \in URLS :
        /\ status_history[u] = recorded[u]
        /\ Updated(u) <= Len(status_history[u])
        /\ Len(status_history[u]) <= Updated(u) + 1
        /\ Len(status_history[u]) = Updated(u) + 1 =>
              (Position \in UpdatePcs /\ urls[idx] = u)
        /\ \A n \in 1..Updated(u) :
              cf_after[u][n] = Streak(status_history[u], n)
        /\ \A n \in 1..(Len(status_history[u]) - 1) :
              status_history[u][n].timestamp <= status_history[u][n + 1].timestamp

\* C18 witness: a URL with the results DOWN, UP, DOWN, all three applied.
C18_Witness ==
    \E u \in URLS :
        /\ StatusesOf(u) = <<"DOWN", "UP", "DOWN">>
        /\ cf_after[u] = <<1, 0, 1>>
        /\ Len(status_history[u]) = 3

----------------------------------------------------------------------------
\* C19 (as claimed): in every cycle each URL is probed at most once and its
\* state updated at most once, whatever lines urls.txt has, so that
\* consecutive_failures of a URL grows by at most 1 per cycle.
C19_OncePerCycle ==
    \A u \in URLS :
        /\ Len(recorded[u]) <= cycles
        /\ Updated(u) <= cycles
        /\ consecutive_failures[u] <= cycles

\* C19 per line of urls.txt: each line is probed and updated at most once in
\* a cycle.
C19_OncePerLine ==
    \A u \in URLS :
        /\ Len(recorded[u]) <= cycles * Occurrences(u)
        /\ Updated(u) <= cycles * Occurrences(u)
        /\ consecutive_failures[u] <= cycles * Occurrences(u)

----------------------------------------------------------------------------
\* The cycles that ran to the end of their report.
CompletedCycles ==
    IF Position \in UpdatePcs \cup {"probe", "report"}
    THEN cycles - 1
    ELSE cycles

\* C20: the snapshot is written exactly once per completed cycle, after every
\* URL of the cycle was probed and updated; in it the consecutive_failures of
\* a URL is the counter of the tracker, and its status, status code and time
\* of the last check are those of the result of that cycle.
C20_SnapshotPerCycle ==
    /\ Len(report) = CompletedCycles
    /\ \A k \in 1..Len(report) :
          /\ report[k].total_checks = k * Len(urls)
          /\ report[k].monitored_urls = Len(urls)
          /\ DOMAIN report[k].url_status_summary = UrlSet(urls)
          /\ \A u \in UrlSet(urls) :
                LET n == k * Occurrences(u)
                    s == report[k].url_status_summary[u]
                IN  /\ Updated(u) >= n
                    /\ s.consecutive_failures = cf_after[u][n]
                    /\ s.current_status = recorded[u][n].status
                    /\ s.last = recorded[u][n]
    /\ (Position \in BetweenCycles /\ cycles >= 1) =>
          \A u \in UrlSet(urls) :
              report[cycles].url_status_summary[u].consecutive_failures
                  = consecutive_failures[u]

\* C20 witness: two cycles, two snapshots; a URL was DOWN in the first and UP
\* in the second.
C20_Witness ==
    /\ pc = "sleep"
    /\ Len(report) = 2
    /\ \E u \in UrlSet(urls) :
          /\ Occurrences(u) = 1
          /\ report[1].url_status_summary[u].current_status = "DOWN"
          /\ report[1].url_status_summary[u].consecutive_failures = 1
          /\ report[2].url_status_summary[u].current_status = "UP"
          /\ report[2].url_status_summary[u].consecutive_failures = 0

----------------------------------------------------------------------------
(***************************************************************************)
(* The alert rule with a per-incident flag, run beside the tracker on the  *)
(* results recorded for one URL.                                           *)
(***************************************************************************)
FlaggedInit == [consecutiveFailures |-> 0,
                alertEmittedForCurrentIncident |-> FALSE,
                downs |-> {}]

\* One update of the flagged rule with the result at position pos.
FlaggedUpdate(st, healthy, threshold, pos) ==
    IF healthy
    THEN [st EXCEPT !.consecutiveFailures = 0,
                    !.alertEmittedForCurrentIncident = FALSE]
    ELSE LET c == st.consecutiveFailures + 1
             emit == c = threshold /\ ~st.alertEmittedForCurrentIncident
         IN  [consecutiveFailures |-> c,
              alertEmittedForCurrentIncident |->
                  st.alertEmittedForCurrentIncident \/ emit,
              downs |-> IF emit THEN st.downs \cup {pos} ELSE st.downs]

\* The flagged rule after the first n results of h.
RECURSIVE FlaggedRun(_, _, _)
FlaggedRun(h, n, threshold) ==
    IF n = 0 THEN FlaggedInit
    ELSE FlaggedUpdate(FlaggedRun(h, n - 1, threshold),
                       h[n].status = "UP", threshold, n)

\* The positions of the results of u at which the tracker emitted Down.
DownPositions(u) ==
    {alerts[i].pos : i \in AlertsAt(u, "Down", 1, Updated(u))}

\* C22: on the same results the tracker, which keeps no flag and emits Down
\* when consecutive_failures equals the threshold after the increment, and
\* the rule with the flag alertEmittedForCurrentIncident emit Down at the
\* same updates, once each, and hold the same counter; the flag is true
\* exactly when a Down alert was emitted since the counter was last 0, only
\* while the counter is at least the threshold, and never while it is 0.
C22_FlagIsRedundant ==
    \A u \in URLS :
        LET n == Updated(u)
            m == FlaggedRun(recorded[u], n, Threshold)
            cf == IF n = 0 THEN 0 ELSE cf_after[u][n]
        IN  /\ DownPositions(u) = m.downs
            /\ Cardinality(AlertsAt(u, "Down", 1, n)) = Cardinality(m.downs)
            /\ cf = m.consecutiveFailures
            /\ m.alertEmittedForCurrentIncident
                  <=> AlertsAt(u, "Down", n - cf + 1, n) # {}
            /\ m.alertEmittedForCurrentIncident => cf >= Threshold
            /\ cf = 0 => ~m.alertEmittedForCurrentIncident

\* C22 witness: a URL failed beyond the threshold: the flag is up, the
\* counter is above the threshold and one Down alert was emitted.
C22_Witness ==
    \E u \in URLS :
        LET n == Updated(u)
            m == FlaggedRun(recorded[u], n, Threshold)
        IN  /\ Threshold >= 1
            /\ n > Threshold
            /\ cf_after[u][n] > Threshold
            /\ m.alertEmittedForCurrentIncident
            /\ Cardinality(AlertsAt(u, "Down", 1, n)) = 1

----------------------------------------------------------------------------
\* The results of u whose update has gone past the marking or the clearing
\* of downtime_start.
Marked(u) ==
    IF /\ Position \in {"count", "hf_inc", "hf_mark",
                        "hs_alert", "hs_reset", "hs_pop"}
       /\ url = u
    THEN Len(recorded[u]) - 1
    ELSE Len(recorded[u])

\* downtime_start[u] is the time of the first failure of the incident of u
\* that is under way.
MarkedAtFirstFailure(u) ==
    LET m == Marked(u)
        k == Streak(recorded[u], m)
    IN  /\ u \in DOMAIN downtime_start <=> k >= 1
        /\ k >= 1 => downtime_start[u] = recorded[u][m - k + 1].timestamp

\* The downtime of a Recovered alert runs from the first failure of the
\* incident that the healthy result at alerts[i].pos ended.
DowntimeFromFirstFailure(i) ==
    LET a == alerts[i]
        k == Streak(recorded[a.url], a.pos - 1)
    IN  a.downtime =
           a.time - (IF k = 0 THEN a.time
                     ELSE recorded[a.url][a.pos - k].timestamp)

\* A step sets downtime_start[u] only where there was none, at the failure
\* that took the counter from 0 to 1, and never changes one that is set.
MarkedOnce ==
    \A u \in URLS :
        /\ (u \in DOMAIN downtime_start /\ u \in DOMAIN downtime_start')
              => downtime_start'[u] = downtime_start[u]
        /\ (u \notin DOMAIN downtime_start /\ u \in DOMAIN downtime_start')
              => consecutive_failures[u] = 1 /\ downtime_start'[u] = now

\* C23: within one incident downtime_start is set once, at the failure that
\* takes consecutive_failures from 0 to 1, and every later failure of the
\* incident leaves it unchanged; the downtime of a Recovered alert is
\* measured from the first failure of the incident.
C23_DowntimeSetOnce ==
    /\ [](/\ \A u \in URLS : MarkedAtFirstFailure(u)
          /\ \A i \in 1..Len(alerts) :
                alerts[i].kind = "Recovered" => DowntimeFromFirstFailure(i))
    /\ [][MarkedOnce]_vars

\* C23 witness: with threshold 2 a URL failed twice at different times and
\* recovered; the downtime of the alert is longer than the time since the
\* failure that reached the threshold.
C23_Witness ==
    \E i \in 1..Len(alerts) :
        LET a == alerts[i]
            h == recorded[a.url]
            k == Streak(h, a.pos - 1)
        IN  /\ a.kind = "Recovered"
            /\ Threshold = 2
            /\ k >= 2
            /\ h[a.pos - k].timestamp < h[a.pos - k + Threshold - 1].timestamp
            /\ a.downtime > a.time - h[a.pos - k + Threshold - 1].timestamp

----------------------------------------------------------------------------
\* The results of u that have gone past the alert test of their update.
Tested(u) ==
    IF Position \in {"hs_reset", "hs_pop", "hf_total"} /\ url = u
    THEN Updated(u) + (IF Position = "hf_total" THEN 0 ELSE 1)
    ELSE Updated(u)

\* C25: the threshold read from config.ini is used as it is; with a threshold
\* of 0 or less no Down alert is ever emitted and every healthy result emits
\* one Recovered alert, also for a URL that never failed, whose downtime is
\* then 0.
C25_NonPositiveThreshold ==
    (ini.exists /\ Threshold <= 0) =>
        /\ ini.settings["alert_threshold"] = Text(IntText(Threshold))
        /\ \A i \in 1..Len(alerts) : alerts[i].kind = "Recovered"
        /\ \A u \in URLS : \A p \in 1..Tested(u) :
              recorded[u][p].status = "UP" =>
                 /\ Cardinality(AlertsAt(u, "Recovered", p, p)) = 1
                 /\ \A i \in AlertsAt(u, "Recovered", p, p) :
                       Downs(recorded[u]) = 0 => alerts[i].downtime = 0

\* C25 witness: with threshold 0 a URL failed twice, without a Down alert,
\* and another, never failing, has a Recovered alert with downtime 0 for each
\* of its two healthy results.
C25_Witness ==
    /\ Threshold = 0
    /\ \E u \in URLS :
          /\ Updated(u) >= 2
          /\ Downs(recorded[u]) = 2
          /\ AlertsAt(u, "Down", 1, Updated(u)) = {}
    /\ \E u \in URLS :
          /\ Updated(u) = 2
          /\ Downs(recorded[u]) = 0
          /\ Cardinality(AlertsAt(u, "Recovered", 1, 2)) = 2
          /\ \A i \in AlertsAt(u, "Recovered", 1, 2) : alerts[i].downtime = 0

----------------------------------------------------------------------------
\* The latest history entry of u and its counter tell the same status.
StatusMatchesCounter(status, cf) ==
    /\ status = "DOWN" <=> cf > 0
    /\ status = "UP" <=> cf = 0

\* C27: at the end of every cycle, where the snapshot is produced, the latest
\* history entry of every monitored URL is DOWN exactly when its
\* consecutive_failures is above 0 and UP exactly when it is 0: the snapshots
\* say so, and the summary counted from the histories is the summary counted
\* from the counters.
C27_StatusMatchesCounter ==
    /\ \A i \in 1..Len(report) : \A u \in DOMAIN report[i].url_status_summary :
          StatusMatchesCounter(report[i].url_status_summary[u].current_status,
                               report[i].url_status_summary[u].consecutive_failures)
    /\ Position \in BetweenCycles \cup {"report"} =>
          /\ \A u \in UrlSet(urls) :
                StatusMatchesCounter(Latest(status_history[u]).status,
                                     consecutive_failures[u])
          /\ FinalSummary(urls, status_history, total_checks, total_failures)
                = print_summary(urls, consecutive_failures, total_checks,
                                total_failures)

\* C27 witness: a snapshot with one URL DOWN at counter 2 and another UP at
\* counter 0.
C27_Witness ==
    \E i \in 1..Len(report) :
        \E u, v \in DOMAIN report[i].url_status_summary :
            /\ report[i].url_status_summary[u].current_status = "DOWN"
            /\ report[i].url_status_summary[u].consecutive_failures = 2
            /\ report[i].url_status_summary[v].current_status = "UP"
            /\ report[i].url_status_summary[v].consecutive_failures = 0

----------------------------------------------------------------------------
\* The write of the snapshot failed in the continuous loop.
ReportWriteFailed ==
    /\ Continuous(entry_point)
    /\ stop = [reason |-> "error", at |-> "report"]

\* C30: a failure to write the snapshot at the end of a cycle is caught by
\* the continuous loop and ends the monitoring: the error is logged, no
\* further cycle runs and the final summary is printed; the cycle has no
\* snapshot, and the state and the counters updated in it are kept.
C30_ReportFailureEndsLoop ==
    /\ [](ReportWriteFailed =>
            /\ pc = "done"
            /\ Len(diagnostics) >= 1
            /\ diagnostics[Len(diagnostics)] = "Error during monitoring"
            /\ summary = SummaryNow
            /\ Len(report) = cycles - 1
            /\ total_checks = cycles * Len(urls)
            /\ total_checks = RecordedTotal
            /\ total_failures = RecordedDown
            /\ \A u \in URLS :
                  /\ Updated(u) = Len(recorded[u])
                  /\ Len(recorded[u]) = cycles * Occurrences(u)
                  /\ status_history[u] = recorded[u]
                  /\ consecutive_failures[u]
                        = Streak(recorded[u], Len(recorded[u]))
                  /\ Consistent(u))
    /\ [][~ReportWriteFailed]_vars

\* C30 witness: the write failed after the second cycle, in which a URL
\* failed for the second time and its Down alert was emitted.
C30_Witness ==
    /\ ReportWriteFailed
    /\ cycles = 2
    /\ Len(report) = 1
    /\ \E u \in URLS :
          /\ consecutive_failures[u] = 2
          /\ AlertsAt(u, "Down", 2, 2) # {}

----------------------------------------------------------------------------
(***************************************************************************)
(* start_continuous_monitoring called with no duration or with 0 hours.    *)
(***************************************************************************)
NoDurationInputs == {<<>>, <<0>>}

InitZero ==
    /\ pc = "main"
    /\ \E e \in {"hcm_main", "menu_continuous"}, list \in UrlLists,
          d \in NoDurationInputs :
          /\ Len(list) >= 1
          /\ Launched(e, "found",
                      IF e = "hcm_main" THEN NoIni
                      ELSE IniWithThreshold(CONSECUTIVE_FAILURES_THRESHOLD),
                      d)
          /\ Constructed(list, get_defaults)

NextZero ==
    \/ Main
    \/ StartCycle
    \/ Probe
    \/ Record
    \/ Count
    \/ HfInc
    \/ HfMark
    \/ HfAlert
    \/ HfTotal
    \/ HsAlert
    \/ HsReset
    \/ HsPop
    \/ GenerateReport
    \/ CheckEnd
    \/ ChooseInterval
    \/ Sleep
    \/ Interrupt

SpecZero == InitZero /\ [][NextZero]_vars

----------------------------------------------------------------------------
(***************************************************************************)
(* _generate_report called a second time right after the call that ends a  *)
(* cycle, with no check in between.                                        *)
(***************************************************************************)
MaxExportDelay == 1

ExportAgain ==
    /\ pc \in {"check_end", "print_summary"}
    /\ calls = 0
    /\ calls' = 1
    /\ \E dt \in 0..MaxExportDelay : now' = now + dt
    /\ \/ /\ report' = Append(report,
                              ReportData(urls, status_history,
                                         consecutive_failures, total_checks,
                                         total_failures, now', start_time))
          /\ UNCHANGED <<pc, summary, stop, diagnostics>>
       \/ /\ Exit("error")
          /\ UNCHANGED report
    /\ UNCHANGED <<launchVars, monitorVars, idx, outcome, result, wait_time,
                   cycles>>

NextExport ==
    \/ Main
    \/ StartCycle
    \/ Probe
    \/ Record
    \/ Count
    \/ HfInc
    \/ HfMark
    \/ HfAlert
    \/ HfTotal
    \/ HsAlert
    \/ HsReset
    \/ HsPop
    \/ GenerateReport
    \/ ExportAgain
    \/ CheckEnd
    \/ PrintSummary
    \/ ChooseInterval
    \/ Sleep
    \/ Interrupt

\* Any entry point, with the settings of the defaults and no duration.
InitExport ==
    /\ pc = "main"
    /\ \E e \in EntryPoints, list \in UrlLists :
          /\ Len(list) >= 1
          /\ Launched(e, "found",
                      IF e = "hcm_main" THEN NoIni
                      ELSE IniWithThreshold(CONSECUTIVE_FAILURES_THRESHOLD),
                      <<>>)
          /\ Constructed(list, get_defaults)

SpecExport == InitExport /\ [][NextExport]_vars

\* A snapshot without its timestamp and its elapsed duration.
Undated(r) ==
    [total_checks |-> r.total_checks,
     total_failures |-> r.total_failures,
     failure_rate |-> r.failure_rate,
     monitored_urls |-> r.monitored_urls,
     url_status_summary |-> r.url_status_summary]

\* C21: _generate_report called twice with no check in between gives the
\* same total_checks, total_failures, failure_rate, monitored_urls and
\* per-URL entries, the timestamp and the elapsed duration aside; and no
\* export changes a counter, a failure count, a downtime start or a history
\* entry.
C21_ExportIsIdempotent ==
    /\ [][Len(report') = Len(report) + 1 =>
            /\ UNCHANGED <<status_history, consecutive_failures,
                           downtime_start, total_checks, total_failures,
                           alerts>>
            /\ UNCHANGED <<recorded, cf_after>>]_vars
    /\ [][(calls' = 1 /\ calls = 0 /\ Len(report') = Len(report) + 1) =>
            Undated(report'[Len(report')]) = Undated(report[Len(report)])]_vars

\* C21 witness: after a cycle with one failure in two checks the snapshot was
\* written twice, a second apart: the two differ in their timestamp and in
\* nothing else.
C21_Witness ==
    /\ calls = 1
    /\ Len(report) = 2
    /\ report[1].total_checks = 2
    /\ report[1].total_failures = 1
    /\ report[1].failure_rate = 5000
    /\ report[2].timestamp > report[1].timestamp
    /\ Undated(report[2]) = Undated(report[1])

----------------------------------------------------------------------------
(***************************************************************************)
(* Continuous monitoring of distinct URLs with a threshold of 1 or more,   *)
(* the main thread running whenever it can.                                *)
(***************************************************************************)
Distinct(list) == Cardinality(UrlSet(list)) = Len(list)

InitFailing ==
    /\ pc = "main"
    /\ \E e \in {"hcm_main", "menu_continuous", "cli_continuous"},
          t \in 1..MaxThreshold, list \in UrlLists :
          /\ e \in {"hcm_main", "cli_continuous"} =>
                t = CONSECUTIVE_FAILURES_THRESHOLD
          /\ Len(list) >= 1
          /\ Distinct(list)
          /\ t * Len(list) <= MaxChecks
          /\ Launched(e, "found",
                      IF e = "hcm_main" THEN NoIni ELSE IniWithThreshold(t),
                      <<>>)
          /\ Constructed(list, load(IniWithThreshold(t)).value)

\* The steps of the main thread.
LoopFailing ==
    \/ Main
    \/ StartCycle
    \/ Probe
    \/ Record
    \/ Count
    \/ HfInc
    \/ HfMark
    \/ HfAlert
    \/ HfTotal
    \/ HsAlert
    \/ HsReset
    \/ HsPop
    \/ GenerateReport
    \/ CheckEnd
    \/ ChooseInterval
    \/ Sleep

NextFailing ==
    \/ LoopFailing
    \/ Interrupt

\* The main thread runs whenever it can; the stop signal may never arrive.
SpecFailing == InitFailing /\ [][NextFailing]_vars /\ WF_vars(LoopFailing)

\* The Down alert of the streak of u under way was emitted at its
\* threshold-th failure, before the snapshot of that cycle.
AlertedByThresholdCycle(u) ==
    LET n == Updated(u)
        k == Streak(recorded[u], n)
        at == n - k + Threshold
    IN  k >= Threshold =>
           /\ AlertsAt(u, "Down", at, at) # {}
           /\ \A i \in AlertsAt(u, "Down", at, at) :
                 /\ alerts[i].time = recorded[u][at].timestamp
                 /\ at <= Len(report) => alerts[i].time <= report[at].timestamp

\* The loop is running: it was not left by a stop signal or an error.
LoopRunning == pc \notin {"done", "crashed", "halted"}

\* Every result of u so far is a failure.
AlwaysFailing(u) == Downs(recorded[u]) = Len(recorded[u])

\* While the loop keeps running, a URL that fails in every cycle eventually
\* has a Down alert.
EventuallyAlerted ==
    \A u \in URLS :
        ([]LoopRunning /\ [](u \in UrlSet(urls) /\ AlwaysFailing(u)))
           => <>(AlertsAt(u, "Down", 1, Threshold) # {})

\* C24: in continuous monitoring with a threshold of 1 or more and distinct
\* URLs, a URL that failed in threshold consecutive cycles has its Down alert
\* from the threshold-th of them, emitted before that cycle ended; and when
\* the loop keeps running and is never stopped, a URL that fails in every
\* cycle eventually has a Down alert.
C24_DownAlertByThresholdCycle ==
    /\ [](\A u \in UrlSet(urls) : AlertedByThresholdCycle(u))
    /\ EventuallyAlerted

\* C24 witness: with threshold 2 a URL failed in the first two cycles and
\* its Down alert is there when the second cycle ends.
C24_Witness ==
    /\ Threshold = 2
    /\ pc = "report"
    /\ cycles = 2
    /\ \E u \in UrlSet(urls) :
          /\ Updated(u) = 2
          /\ AlwaysFailing(u)
          /\ AlertsAt(u, "Down", 2, 2) # {}

----------------------------------------------------------------------------
(***************************************************************************)
(* Single cycles run one after the other: menu choice 1 taken again, or    *)
(* run.py --once started again.  Each run constructs its own monitor.      *)
(***************************************************************************)
MaxInvocations == 3

\* What is left of a run for the next one to see: nothing, in the program;
\* the model keeps its alerts and its counters.
RunRecord == [alerts |-> alerts, consecutive_failures |-> consecutive_failures]

\* A next run that goes on with the monitor of the run before.
Relaunch_SameMonitor ==
    /\ pc = "done"
    /\ Len(earlier) + 1 < MaxInvocations
    /\ (Len(earlier) + 2) * Len(urls) <= MaxChecks
    /\ earlier' = Append(earlier, RunRecord)
    /\ pc' = "main"
    /\ cycles' = 0
    /\ idx' = 0
    /\ stop' = NotStopped
    /\ \E dt \in {CHECK_INTERVAL} : now' = now + dt
    /\ UNCHANGED <<urls, config, entry_point, urls_file, ini, duration_hours,
                   start_time, end_time, twin, diagnostics, status_history,
                   consecutive_failures, downtime_start, total_checks,
                   total_failures, alerts, recorded, cf_after, outcome,
                   result, report, wait_time, summary, calls>>

\* monitor = HealthCheckMonitor(config), some time after a run that came to
\* its end; the runs together make no more than MaxChecks checks.
Relaunch ==
    /\ pc = "done"
    /\ Len(earlier) + 1 < MaxInvocations
    /\ (Len(earlier) + 2) * Len(urls) <= MaxChecks
    /\ earlier' = Append(earlier, RunRecord)
    /\ pc' = "main"
    /\ \E dt \in {CHECK_INTERVAL} : now' = now + dt
    /\ start_time' = now'
    /\ diagnostics' = LoadUrlsLog(entry_point, urls_file)
    /\ status_history' = [u \in URLS |-> <<>>]
    /\ consecutive_failures' = [u \in URLS |-> 0]
    /\ downtime_start' = <<>>
    /\ total_checks' = 0
    /\ total_failures' = 0
    /\ idx' = 0
    /\ outcome' = NoOutcome
    /\ result' = NoResult
    /\ alerts' = <<>>
    /\ report' = <<>>
    /\ wait_time' = 0
    /\ summary' = <<>>
    /\ stop' = NotStopped
    /\ cycles' = 0
    /\ recorded' = [u \in URLS |-> <<>>]
    /\ cf_after' = [u \in URLS |-> <<>>]
    /\ UNCHANGED <<urls, config, entry_point, urls_file, ini, duration_hours,
                   end_time, twin, calls>>

InitOnce ==
    /\ pc = "main"
    /\ \E e \in {"menu_once", "cli_once"}, t \in 1..MaxThreshold,
          list \in UrlLists :
          /\ e = "cli_once" => t = CONSECUTIVE_FAILURES_THRESHOLD
          /\ Len(list) >= 1
          /\ Launched(e, "found", IniWithThreshold(t), <<>>)
          /\ Constructed(list, load(IniWithThreshold(t)).value)

NextOnce ==
    \/ Main
    \/ StartCycle
    \/ Probe
    \/ Record
    \/ Count
    \/ HfInc
    \/ HfMark
    \/ HfAlert
    \/ HfTotal
    \/ HsAlert
    \/ HsReset
    \/ HsPop
    \/ GenerateReport
    \/ PrintSummary
    \/ Interrupt
    \/ Relaunch

SpecOnce == InitOnce /\ [][NextOnce]_vars

\* C26: in single-cycle mode every run starts from a new monitor with empty
\* state, so no count carries over: with distinct URLs and a threshold of 2
\* or more no run emits a Down or a Recovered alert, however many runs there
\* are and however long a URL keeps failing.
C26_NoAlertInSingleCycles ==
    /\ pc = "main" =>
          /\ \A u \in URLS :
                consecutive_failures[u] = 0 /\ status_history[u] = <<>>
          /\ downtime_start = <<>>
          /\ total_checks = 0 /\ total_failures = 0
    /\ (Distinct(urls) /\ Threshold >= 2) =>
          /\ alerts = <<>>
          /\ \A i \in 1..Len(earlier) : earlier[i].alerts = <<>>
          /\ \A u \in URLS : consecutive_failures[u] <= 1

\* C26 witness: with threshold 2 a URL failed in three single cycles in a
\* row, and no run has an alert.
C26_Witness ==
    /\ Threshold = 2
    /\ Distinct(urls)
    /\ pc = "done"
    /\ Len(earlier) = 2
    /\ alerts = <<>>
    /\ \E u \in UrlSet(urls) :
          /\ consecutive_failures[u] = 1
          /\ \A i \in 1..2 :
                /\ earlier[i].consecutive_failures[u] = 1
                /\ earlier[i].alerts = <<>>

----------------------------------------------------------------------------
(***************************************************************************)
(* The monitor of health_check_monitor.py beside the monitor of run.py,    *)
(* both fed the outcome of the same requests.  The state of the first is   *)
(* in twin, the state of the second in the variables of the module.        *)
(***************************************************************************)
MaxPairCalls == 4

\* health_check_monitor.py check_url_health: Config in place of self.config,
\* and its own messages.
hcm_check_url_health(o) ==
    CASE o.kind = "response" ->
            Returned(o.status_code \in HEALTHY_STATUS_CODES,
                     o.status_code, o.elapsed, "OK")
      [] o.kind = "Timeout" ->
            Returned(FALSE, 0, REQUEST_TIMEOUT, "Request timeout")
      [] o.kind = "ConnectionError" ->
            Returned(FALSE, 0, 0, "Connection error")
      [] o.kind = "RequestException" ->
            Returned(FALSE, 0, 0, "Request error")
      [] OTHER ->
            Returned(FALSE, 0, 0, "Unexpected error")

\* A Down alert of the twin from the third failure on only.
hcm_ThresholdReached_Third(cf) == cf = CONSECUTIVE_FAILURES_THRESHOLD + 1

\* "== Config.CONSECUTIVE_FAILURES_THRESHOLD"
hcm_ThresholdReached(cf) == cf = CONSECUTIVE_FAILURES_THRESHOLD

\* "was_down = ... >= Config.CONSECUTIVE_FAILURES_THRESHOLD"
hcm_WasDown(cf) == cf >= CONSECUTIVE_FAILURES_THRESHOLD

\* The state of a monitor that record_status, handle_failure and
\* handle_success work on.
MonitorState(hist, cf, ds, checks, failures, log) ==
    [status_history |-> hist, consecutive_failures |-> cf,
     downtime_start |-> ds, total_checks |-> checks,
     total_failures |-> failures, alerts |-> log]

\* health_check_monitor.py, the body of "for url in self.urls" for result r
\* of url u at time t; d is what becomes of the email of an alert.
hcm_process(m, u, r, t, d) ==
    LET hist == [m.status_history EXCEPT
                    ![u] = record_status(@, StatusEntry(u, r, t))]
        cf == m.consecutive_failures[u]
        pos == Len(hist[u])
    IN  IF r.is_healthy
        THEN MonitorState(
                hist,
                [m.consecutive_failures EXCEPT ![u] = 0],
                PopDowntimeStart(m.downtime_start, u),
                m.total_checks + 1,
                m.total_failures,
                IF hcm_WasDown(cf)
                THEN Append(m.alerts,
                            RecoveredAlert(u,
                                           t - GetDowntimeStart(
                                                  m.downtime_start, u, t),
                                           cf, t, pos, send_email(d).email))
                ELSE m.alerts)
        ELSE MonitorState(
                hist,
                [m.consecutive_failures EXCEPT ![u] = cf + 1],
                IF IsFirstFailure(cf + 1)
                THEN SetDowntimeStart(m.downtime_start, u, t)
                ELSE m.downtime_start,
                m.total_checks + 1,
                m.total_failures + 1,
                IF hcm_ThresholdReached(cf + 1)
                THEN Append(m.alerts,
                            DownAlert(u, r, cf + 1, t, pos,
                                      send_email(d).email))
                ELSE m.alerts)

\* run.py, the body of "for url in self.urls" for result r of url u at time
\* t; run.py logs its alerts and sends no email.
run_process(m, u, r, cfg, t) ==
    LET hist == [m.status_history EXCEPT
                    ![u] = record_status(@, StatusEntry(u, r, t))]
        cf == m.consecutive_failures[u]
        pos == Len(hist[u])
    IN  IF r.is_healthy
        THEN MonitorState(
                hist,
                [m.consecutive_failures EXCEPT ![u] = 0],
                PopDowntimeStart(m.downtime_start, u),
                m.total_checks + 1,
                m.total_failures,
                IF WasDown(cf, cfg)
                THEN Append(m.alerts,
                            RecoveredAlert(u,
                                           t - GetDowntimeStart(
                                                  m.downtime_start, u, t),
                                           cf, t, pos, "off"))
                ELSE m.alerts)
        ELSE MonitorState(
                hist,
                [m.consecutive_failures EXCEPT ![u] = cf + 1],
                IF IsFirstFailure(cf + 1)
                THEN SetDowntimeStart(m.downtime_start, u, t)
                ELSE m.downtime_start,
                m.total_checks + 1,
                m.total_failures + 1,
                IF ThresholdReached(cf + 1, cfg)
                THEN Append(m.alerts, DownAlert(u, r, cf + 1, t, pos, "off"))
                ELSE m.alerts)

\* HealthCheckMonitor.__init__ of health_check_monitor.py
HcmMonitor(em) ==
    [monitor |-> "hcm",
     email_enabled |-> em,
     state |-> MonitorState([u \in URLS |-> <<>>], [u \in URLS |-> 0], <<>>,
                            0, 0, <<>>)]

\* run.py with alert_threshold 2 and the default healthy codes, and the
\* monitor of health_check_monitor.py with or without email alerts.
InitPair ==
    /\ pc = "pair"
    /\ \E e \in {"menu_continuous", "cli_continuous"}, list \in UrlLists,
          em \in BOOLEAN :
          /\ Len(list) >= 1
          /\ entry_point = e
          /\ urls_file = "found"
          /\ ini = IniWithThreshold(CONSECUTIVE_FAILURES_THRESHOLD)
          /\ duration_hours = <<>>
          /\ diagnostics = LoadUrlsLog(e, "found")
          /\ earlier = <<>>
          /\ twin = HcmMonitor(em)
          /\ Constructed(list,
                         load(IniWithThreshold(
                                 CONSECUTIVE_FAILURES_THRESHOLD)).value)

\* One request, its outcome handled by both monitors; after the last URL of
\* the list the wait before the next cycle.
PairStep ==
    /\ pc = "pair"
    /\ calls < MaxPairCalls
    /\ \E o \in Outcomes,
          d \in Deliveries("hcm_main", [email_enabled |-> twin.email_enabled]) :
        LET i == (calls % Len(urls)) + 1
            u == urls[i]
            t == now + ProbeDuration(o, config)
            r == check_url_health(o, config)
            mine == run_process(MonitorState(status_history,
                                             consecutive_failures,
                                             downtime_start, total_checks,
                                             total_failures, alerts),
                                u, r, config, t)
            theirs == hcm_process(twin.state, u, hcm_check_url_health(o), t, d)
        IN  /\ outcome' = o
            /\ result' = r
            /\ status_history' = mine.status_history
            /\ consecutive_failures' = mine.consecutive_failures
            /\ downtime_start' = mine.downtime_start
            /\ total_checks' = mine.total_checks
            /\ total_failures' = mine.total_failures
            /\ alerts' = mine.alerts
            /\ recorded' = [recorded EXCEPT
                               ![u] = Append(@, StatusEntry(u, r, t))]
            /\ cf_after' = [cf_after EXCEPT
                               ![u] = Append(@, mine.consecutive_failures[u])]
            /\ twin' = [twin EXCEPT !.state = theirs]
            /\ now' = IF i = Len(urls)
                      THEN t + NextWait(urls, mine.consecutive_failures, config)
                      ELSE t
    /\ calls' = calls + 1
    /\ UNCHANGED <<urls, config, entry_point, urls_file, ini, duration_hours,
                   start_time, end_time, earlier, diagnostics, pc, idx,
                   report, wait_time, summary, stop, cycles>>

NextPair == PairStep

SpecPair == InitPair /\ [][NextPair]_vars

\* The kind, the URL and the update of every alert of a log, in order.
AlertPoints(log) ==
    [i \in 1..Len(log) |-> <<log[i].kind, log[i].url, log[i].pos>>]

\* The statuses of a history, in order.
Statuses(h) == [i \in 1..Len(h) |-> h[i].status]

\* C28: the monitor of health_check_monitor.py, with its fixed threshold 2,
\* and the monitor of run.py, with alert_threshold 2 and the default healthy
\* codes, fed the same URL list and the same results, hold after every
\* result the same consecutive_failures, the same URLs with a
\* downtime_start, the same history statuses and the same total_checks and
\* total_failures, and have emitted Down and Recovered alerts at the same
\* updates.
C28_ImplementationsAgree ==
    /\ twin.monitor = "hcm"
    /\ consecutive_failures = twin.state.consecutive_failures
    /\ DOMAIN downtime_start = DOMAIN twin.state.downtime_start
    /\ \A u \in URLS :
          Statuses(status_history[u]) = Statuses(twin.state.status_history[u])
    /\ total_checks = twin.state.total_checks
    /\ total_failures = twin.state.total_failures
    /\ AlertPoints(alerts) = AlertPoints(twin.state.alerts)

\* C28 witness: after three failures and a recovery of a URL both monitors
\* have a Down and a Recovered alert for it, the one of
\* health_check_monitor.py with its emails and its own messages.
C28_Witness ==
    /\ twin.monitor = "hcm"
    /\ calls = MaxPairCalls
    /\ \E u \in URLS :
          /\ AlertPoints(alerts) = <<(<<"Down", u, 2>>), (<<"Recovered", u, 4>>)>>
          /\ AlertPoints(twin.state.alerts) = AlertPoints(alerts)
          /\ twin.state.alerts[1].email = "sent"
          /\ alerts[1].email = "off"
          /\ twin.state.status_history[u][1].message
                # status_history[u][1].message

====
